---- MODULE Spec2Model ----
(***************************************************************************)
(* State-machine model of UniversalScraper.scrape (src/app/scraper.py):    *)
(* one request moving through static fetch, classification, rendered or    *)
(* paginated acquisition, parse-and-merge, validation and return.          *)
(*                                                                         *)
(* Markup is abstracted to the features the code reads from it: the        *)
(* classifier's markers and text length, the anchors the pagination        *)
(* selectors match (in document order), and what the section extractor     *)
(* finds.  URLs are [path, n] records standing for "https://host<path>/n". *)
(* Optional values (Python None) are sequences: <<>> is None, <<v>> is v.  *)
(***************************************************************************)
EXTENDS Integers, Sequences, FiniteSets, TLC

\* ------------------------------------------------------------------ bounds

\* Highest page number a served page links to.
MaxPageNo == 6

\* Longest run of anchors in one parsed element.
MaxAnchors == 104

\* Longest run of img elements in one parsed element.
MaxImages == 44

\* Most ul/ol elements in one parsed element.
MaxLists == 16

\* Most table elements in one parsed element.
MaxTables == 8

\* UniversalScraper.__init__: self.max_pages
max_pages == 5

max_scrolls == 5

max_clicks == 8

TabCap == 5

LoadMoreCap == 3

\* _needs_js_rendering: "if text_length < 500"
LowTextThreshold == 500

\* _needs_js_rendering: "has_js_framework and text_length < 2000"
FrameworkTextThreshold == 2000

\* HTMLParser.__init__: self.max_raw_html_length
max_raw_html_length == 2000

\* _extract_links: return links[:50]
LinksCap == 50

\* _extract_images: return images[:20]
ImagesCap == 20

\* _extract_lists: return lists[:10]
ListsCap == 10

\* _extract_tables: return tables[:5]
TablesCap == 5

\* ------------------------------------------------------------------ helpers

Range(s) == {s[i] : i \in 1..Len(s)}

Last(s) == s[Len(s)]

\* ------------------------------------------------------------------ URLs

Paths == {"/list", "/page", "/js"}

Url(p, k) == [path |-> p, n |-> k]

StartUrls == {Url(p, 1) : p \in Paths}

\* _needs_js_rendering: any(pattern in url_lower for pattern in ['/scroll', '/js', 'ajax'])
UrlHasJsPattern(u) == u.path \in {"/js", "/scroll"}

\* _detect_static_pagination: any(pattern in url_lower for ['/page-', '/page/', '?page='])
UrlHasPagePattern(u) == u.path = "/page"

\* Hrefs as they stand in an anchor's attribute: "" (no value), "#" (empty
\* fragment), "http://[" (malformed authority), or a path on the same host.
HrefNone == [kind |-> "none"]
HrefHash == [kind |-> "hash"]
HrefBad  == [kind |-> "bad"]
HrefTo(u) == [kind |-> "path", to |-> u]

\* urllib.parse.urljoin: raises ValueError on a malformed authority
UrlJoinRaises(href) == href.kind = "bad"

\* urllib.parse.urljoin(current_url, href): an empty fragment resolves to the
\* base URL itself, a path to the URL it names.
UrlJoin(base, href) == IF href.kind = "path" THEN href.to ELSE base

\* ------------------------------------------------------------------ markup

Anchor(s, h, t) == [sel |-> s, href |-> h, text |-> t]

\* The pages the site can serve at URL u, by template.
\*   article   long text, no pagination anchors
\*   listing   long text, <li class="next"><a href=next>
\*   prevnext  a.next without href, then .pagination "previous", then "next"
\*   hashnext  <a class="next" href="#"> (script-driven button)
\*   loop      <a rel="next"> back to the first page
\*   badhref   <a class="next" href="http://[">
\*   pager     only a ".pager a" anchor (detected, never followed)
\*   iconprev  .pagination with icons for texts: href "/prev?..." then the next page
\*   morelink  <a class="morelink" href=next>More</a> (browser pages only)
\*   thin      120 characters of text and a next link
\*   shell     framework mount point, body without text
\*   fragment  markup without <body> tags, some text
\*   broken    a landmark with a valueless class attribute (extraction raises)
\*   blank     the empty string, parsed to a tree with an empty body
\*   void      the empty string, parsed to a tree without a body
Templates ==
    {"article", "listing", "prevnext", "hashnext", "loop", "badhref", "pager",
     "iconprev", "thin", "shell", "fragment", "broken", "blank", "void"}

NextOf(u) == Url(u.path, u.n + 1)

PrevOf(u) == Url(u.path, IF u.n > 1 THEN u.n - 1 ELSE 1)

LinksOf(t, u) ==
    CASE t = "listing"  -> <<Anchor("li.next a", HrefTo(NextOf(u)), "next")>>
      [] t = "prevnext" -> <<Anchor("a.next", HrefNone, "next"),
                             Anchor(".pagination a", HrefTo(PrevOf(u)), "previous"),
                             Anchor(".pagination a", HrefTo(NextOf(u)), "next")>>
      [] t = "hashnext" -> <<Anchor("a.next", HrefHash, "next")>>
      [] t = "loop"     -> <<Anchor("a[rel=next]", HrefTo(Url(u.path, 1)), "next")>>
      [] t = "badhref"  -> <<Anchor("a.next", HrefBad, "next")>>
      [] t = "pager"    -> <<Anchor(".pager a", HrefTo(NextOf(u)), "older")>>
      [] t = "iconprev" -> <<Anchor(".pagination a", HrefTo(Url("/prev", u.n)), "<<"),
                             Anchor(".pagination a", HrefTo(NextOf(u)), ">>")>>
      [] t = "morelink" -> <<Anchor("a.morelink", HrefTo(NextOf(u)), "More")>>
      [] t = "thin"     -> <<Anchor("li.next a", HrefTo(NextOf(u)), "next")>>
      [] t = "broken"   -> <<Anchor("li.next a", HrefTo(NextOf(u)), "next")>>
      [] OTHER          -> <<>>

Page(t, u) ==
    [title    |-> t,
     empty    |-> (t \in {"blank", "void"}),
     marker   |-> IF t = "shell" THEN "framework" ELSE "none",
     bodyTags |-> (t \notin {"fragment", "blank", "void"}),
     treeBody |-> (t # "void"),
     textLen  |-> CASE t \in {"shell", "blank", "void"} -> 0
                    [] t \in {"thin", "fragment"} -> 120
                    [] OTHER -> 3000,
     padding  |-> 0,
     links    |-> IF u.n < MaxPageNo THEN LinksOf(t, u) ELSE <<>>,
     raises   |-> (t = "broken"),
     found    |-> CASE t \in {"article", "listing", "hashnext", "loop"} -> 2
                    [] t \in {"prevnext", "badhref", "pager", "iconprev"} -> 1
                    [] OTHER -> 0,
     bodyText |-> IF t \in {"shell", "blank", "void"} THEN "" ELSE "text"]

Corpus(u) == {Page(t, u) : t \in Templates}

\* ------------------------------------------------------------------ classifier

\* _needs_js_rendering: text_length = len(clean_body.strip()), where
\* clean_body is the body with script and style blocks removed and every tag
\* replaced by one space.  h.textLen is the length of the body's text with
\* whitespace runs collapsed; h.padding counts what the code's measure adds
\* to it: the spaces put in place of tags inside the text and the whitespace
\* of the markup beyond single spaces (runs are not collapsed, only the two
\* ends are stripped, so a body without text measures 0).
TextLength(h) == IF h.textLen = 0 THEN 0 ELSE h.textLen + h.padding

\* UniversalScraper._needs_js_rendering
NeedsJsRendering(h, u) ==
    IF UrlHasJsPattern(u) THEN TRUE
    ELSE IF h.marker = "infinite" THEN TRUE
    ELSE IF ~h.bodyTags THEN TRUE
    ELSE IF TextLength(h) < LowTextThreshold THEN TRUE
    ELSE IF h.marker = "framework" /\ TextLength(h) < FrameworkTextThreshold THEN TRUE
    ELSE FALSE

DetectSelectors == {"a.next", "li.next a", "a[rel=next]", ".pagination a", ".pager a"}

\* UniversalScraper._detect_static_pagination
DetectStaticPagination(h, u) ==
    \/ \E i \in 1..Len(h.links) : h.links[i].sel \in DetectSelectors
    \/ UrlHasPagePattern(u)

\* ------------------------------------------------------------------ paginator helpers

\* _static_paginate: selectors, in priority order
PaginateSelectors == <<"li.next a", "a.next", "a[rel=next]", ".pagination a", "a.morelink">>

\* 'prev' in text or 'previous' in text, on the lower-cased anchor text
TextSuggestsPrev(t) == t \in {"prev", "previous"}

\* the inner loop of _static_paginate: an anchor is taken when it has an href
\* and its text does not suggest "previous"
Eligible(a) == a.href.kind # "none" /\ ~TextSuggestsPrev(a.text)

\* the anchors in the order the two nested loops visit them
CandidateOrder(h) ==
    LET bySel(k) == SelectSeq(h.links, LAMBDA a : a.sel = PaginateSelectors[k])
    IN  bySel(1) \o bySel(2) \o bySel(3) \o bySel(4) \o bySel(5)

\* next_href after the selector scan: <<>> when no anchor survives
NextHref(h) ==
    LET ok == SelectSeq(CandidateOrder(h), Eligible)
    IN  IF ok = <<>> THEN <<>> ELSE <<ok[1].href>>

\* ------------------------------------------------------------------ section extractor

\* A section as _parse_section builds it.  content.text is the sequence of
\* the text's parts: <<>> is the empty string.  id is f"{type}-{ord}" and
\* label the label text, each with the page suffix the merger appends
\* (page 0: no suffix).  rawHtml is <<>> for the empty string.
Section(ty, ord, lab, src, txt) ==
    [id        |-> [type |-> ty, ord |-> ord, page |-> 0],
     type      |-> ty,
     label     |-> [text |-> lab, page |-> 0],
     sourceUrl |-> src,
     content   |-> [text |-> txt],
     rawHtml   |-> <<>>,
     truncated |-> FALSE]

\* _parse_section: raw_html = element.html, cut at max_raw_html_length; the
\* element's markup is at least as long as its text
WithRawHtml(s, h) ==
    [s EXCEPT !.rawHtml = <<h.title>>,
              !.truncated = (h.textLen > max_raw_html_length)]

\* HTMLParser._extract_sections, "Ensure we always return at least one section"
PlaceholderSection(base_url) ==
    [Section("unknown", 0, "Content", base_url, <<"No content extracted">>)
        EXCEPT !.id = [type |-> "default", ord |-> 0, page |-> 0]]

\* HTMLParser._parse_section(body, base_url, 0, "unknown"): built whatever the
\* body's text is
BodySection(h, base_url) ==
    WithRawHtml(
        Section("unknown", 0, IF h.bodyText = "" THEN "Content" ELSE h.bodyText,
                base_url, IF h.bodyText = "" THEN <<>> ELSE <<h.bodyText>>),
        h)

ExtractSectionsNoPlaceholder(h, base_url) ==
    IF h.found = 0 /\ h.treeBody THEN <<BodySection(h, base_url)>>
    ELSE [i \in 1..h.found |->
            WithRawHtml(Section("section", i - 1, h.title, base_url, <<"text">>), h)]

\* HTMLParser._extract_sections: the sections the three discovery strategies
\* keep (each with non-empty text), else the body, else the placeholder
ExtractSections(h, base_url) ==
    LET found == [i \in 1..h.found |->
                     WithRawHtml(
                         Section("section", i - 1, h.title, base_url, <<"text">>),
                         h)]
        withBody == IF found = <<>> /\ h.treeBody
                    THEN <<BodySection(h, base_url)>> ELSE found
    IN  IF withBody = <<>> THEN <<PlaceholderSection(base_url)>> ELSE withBody

\* A call's outcome: a value, or the message of the exception it raised.
Ok(v) == [ok |-> TRUE, val |-> v]

Raise(m) == [ok |-> FALSE, msg |-> m]

\* HTMLParser.parse
Parse(h, base_url) ==
    IF h.raises
    THEN Raise("'NoneType' object has no attribute 'lower'")
    ELSE Ok([url      |-> base_url,
             meta     |-> [title |-> h.title, language |-> "en"],
             sections |-> ExtractSections(h, base_url)])

RenamedLabelOnly(s, k) == [s EXCEPT !.label = [@ EXCEPT !.page = k]]

\* _parse_and_merge_pages: the renaming of one section of page k
Renamed(s, k) ==
    [s EXCEPT !.id = [@ EXCEPT !.page = k], !.label = [@ EXCEPT !.page = k]]

\* _parse_and_merge_pages: the loop over html_pages[1:], from page k on
RECURSIVE MergeFrom(_, _, _)
MergeFrom(pages, k, base_url) ==
    IF k > Len(pages) THEN <<>>
    ELSE LET r == Parse(pages[k], base_url)
             mine == IF r.ok
                     THEN [i \in 1..Len(r.val.sections) |-> Renamed(r.val.sections[i], k)]
                     ELSE <<>>
         IN  mine \o MergeFrom(pages, k + 1, base_url)

ParseAndMergePagesLastMeta(pages, base_url) ==
    IF pages = <<>> THEN Raise("No HTML pages to parse")
    ELSE LET first == Parse(pages[1], base_url)
             last == Parse(pages[Len(pages)], base_url)
         IN  IF ~first.ok THEN first
             ELSE IF Len(pages) = 1 THEN first
             ELSE Ok([first.val EXCEPT
                        !.meta = IF last.ok THEN last.val.meta ELSE @,
                        !.sections = @ \o MergeFrom(pages, 2, base_url)])

\* UniversalScraper._parse_and_merge_pages
ParseAndMergePages(pages, base_url) ==
    IF pages = <<>> THEN Raise("No HTML pages to parse")
    ELSE LET first == Parse(pages[1], base_url)
         IN  IF ~first.ok THEN first
             ELSE IF Len(pages) = 1 THEN first
             ELSE Ok([first.val EXCEPT
                        !.sections = @ \o MergeFrom(pages, 2, base_url)])

\* ------------------------------------------------------------------ discovery strategies

\* An element of the body: tag, class attribute, length of its text.  The
\* elements of a tree stand side by side in the body, none inside another.
El(t, c, n) == [tag |-> t, class |-> c, chars |-> n]

ElementKinds ==
    {El("header", "", 60), El("nav", "", 0), El("section", "pricing", 60),
     El("article", "", 60), El("div", "quote", 60), El("div", "quote", 200),
     El("div", "post", 60), El("div", "post", 40), El("div", "post-card", 60),
     El("h2", "", 10), El("tr", "athing", 60), El("header", "pricing", 60)}

NoTree == [body |-> FALSE, elems |-> <<>>]

\* Bodies of up to three elements, a body of five elements the landmark
\* strategy keeps, and a tree without body.
Trees ==
    {[body |-> TRUE, elems |-> e] :
        e \in {<<>>} \cup {<<a>> : a \in ElementKinds}
                     \cup {<<a, b>> : a, b \in ElementKinds}
                     \cup {<<a, b, c>> : a, b, c \in ElementKinds}}
    \cup {[body |-> TRUE, elems |-> [i \in 1..5 |-> El("article", "", 60)]], NoTree}

\* The words the selectors and _determine_section_type look for that occur
\* in a class attribute as substrings.
ClassWords(c) ==
    CASE c = "post" -> {"post"}
      [] c = "post-card" -> {"post", "card"}
      [] c = "pricing" -> {"pricing"}
      [] OTHER -> {}

\* _extract_sections: landmarks
Landmarks ==
    <<[tag |-> "header", type |-> "header"], [tag |-> "nav", type |-> "nav"],
      [tag |-> "main", type |-> "section"], [tag |-> "section", type |-> "section"],
      [tag |-> "article", type |-> "section"], [tag |-> "aside", type |-> "section"],
      [tag |-> "footer", type |-> "footer"]>>

\* _extract_content_blocks: content_selectors
ContentSelectors ==
    <<[tag |-> "article", word |-> ""], [tag |-> "div", word |-> "post"],
      [tag |-> "div", word |-> "item"], [tag |-> "div", word |-> "card"],
      [tag |-> "div", word |-> "content"], [tag |-> "div", word |-> "story"],
      [tag |-> "tr", word |-> "athing"]>>

\* tree.css(selector) for a content selector: 'article', 'div[class*="w"]'
\* (w occurs in the class attribute) or 'tr.athing' (athing is a class)
MatchesSelector(el, sel) ==
    /\ el.tag = sel.tag
    /\ CASE sel.tag = "article" -> TRUE
         [] sel.tag = "tr" -> el.class = sel.word
         [] OTHER -> sel.word \in ClassWords(el.class)

\* _determine_section_type: the keyword lists, in the order they are tried
TypeKeywords ==
    <<[type |-> "hero", words |-> {"hero", "banner", "jumbotron"}],
      [type |-> "nav", words |-> {"nav", "menu", "navigation"}],
      [type |-> "footer", words |-> {"footer"}],
      [type |-> "pricing", words |-> {"pricing", "price"}],
      [type |-> "faq", words |-> {"faq", "question"}],
      [type |-> "grid", words |-> {"grid", "cards"}],
      [type |-> "list", words |-> {"list"}]>>

\* HTMLParser._determine_section_type
DetermineSectionType(el, default_type) ==
    CASE el.tag = "nav" -> "nav"
      [] el.tag = "header" -> "hero"
      [] el.tag = "footer" -> "footer"
      [] OTHER ->
            LET hits == {i \in 1..Len(TypeKeywords) :
                            TypeKeywords[i].words \cap ClassWords(el.class) # {}}
            IN  IF hits = {} THEN default_type
                ELSE TypeKeywords[CHOOSE i \in hits : \A j \in hits : i <= j].type

\* HTMLParser._parse_section on an element of the tree: the element has no
\* heading inside and no aria-label or title, so the label is the first words
\* of its text, else "Content"
ParsedElement(el, base_url, id, default_type) ==
    [Section(DetermineSectionType(el, default_type), id,
             IF el.chars = 0 THEN "Content" ELSE "words", base_url,
             IF el.chars = 0 THEN <<>> ELSE <<"text">>)
        EXCEPT !.rawHtml = <<el.tag>>]

\* the positions of a sequence that satisfy a test, in order
Positions(s, Test(_)) == SelectSeq([i \in 1..Len(s) |-> i], Test)

RECURSIVE SumOver(_, _)
SumOver(f, S) ==
    IF S = {} THEN 0
    ELSE LET c == CHOOSE c \in S : TRUE IN f[c] + SumOver(f, S \ {c})

NoneProcessed == [c \in 1..(Len(Landmarks) + Len(ContentSelectors)) |-> 0]

\* processed_elements holds id(element) of the node objects tree.css built,
\* and a node object lives as long as the list that tree.css returned: until
\* the same function's "elements" is bound to the list of its next call.  The
\* landmark loop makes calls 1..7 and the content-block loop calls 8..14 (the
\* landmark loop's last list stays bound meanwhile).  An id recorded by call c
\* is the address of a dead object at call k when FreedAt(c, k): a node built
\* later can have the same id, and is then taken for a processed one.  Nodes
\* built for an element that was processed before are new objects, so an
\* element is recognised only by such a coincidence.
FreedAt(c, k) == c + 2 <= k /\ ~(c = Len(Landmarks) /\ k > Len(Landmarks))

\* how many of the nodes of call k can be taken for processed ones
StaleIds(proc, k) == SumOver(proc, {c \in DOMAIN proc : FreedAt(c, k)})

\* the plain text the classifier and the body fallback see of a tree
RECURSIVE TreeChars(_)
TreeChars(elems) ==
    IF elems = <<>> THEN 0 ELSE elems[1].chars + TreeChars(Tail(elems))

\* The markup of a tree as the classifier and _parse_section(body, ...) read
\* it: a title, no marker, no anchors, the elements' text, and two spaces
\* (one per tag) between two neighbouring elements.
TreePage(t) ==
    [title    |-> "Quotes",
     marker   |-> "none",
     bodyTags |-> t.body,
     treeBody |-> t.body,
     textLen  |-> TreeChars(t.elems),
     padding  |-> IF Len(t.elems) > 1 THEN 2 * (Len(t.elems) - 1) ELSE 0,
     links    |-> <<>>,
     bodyText |-> IF TreeChars(t.elems) = 0 THEN "" ELSE "text"]

\* ------------------------------------------------------------------ section content

\* The value of an href or src attribute.  kind is what the extractor's
\* tests tell apart:
\*   none     the attribute has no value (attributes.get gives None)
\*   empty    ""
\*   fragment "#top"
\*   js       "javascript:void(0)"
\*   jsUpper  "JavaScript:void(0)"
\*   mailto   "mailto:a@example.org"
\*   tel      "tel:+15550100"
\*   rel      "/item/<n>"
\*   abs      "https://host/item/<n>"
Attr(kind, k) == [kind |-> kind, n |-> k]

\* "not href"
Falsy(a) == a.kind \in {"none", "empty"}

\* str.startswith, which compares case-sensitively
StartsWith(a, prefix) ==
    CASE prefix = "#" -> a.kind = "fragment"
      [] prefix = "javascript:" -> a.kind = "js"
      [] OTHER -> FALSE

\* urljoin(base_url, value): a value with a scheme of its own is returned as
\* it stands, a path is resolved against the base's scheme and host.
Resolved(base_url, a) ==
    CASE a.kind \in {"rel", "abs"} -> [scheme |-> "https", at |-> <<"item", a.n>>]
      [] a.kind \in {"js", "jsUpper"} -> [scheme |-> "javascript", at |-> <<a.kind>>]
      [] a.kind = "mailto" -> [scheme |-> "mailto", at |-> <<>>]
      [] a.kind = "tel" -> [scheme |-> "tel", at |-> <<>>]
      [] a.kind = "fragment" -> [scheme |-> "https", at |-> <<base_url, "#top">>]
      [] OTHER -> [scheme |-> "https", at |-> <<base_url>>]

Take(s, n) == SubSeq(s, 1, IF Len(s) < n THEN Len(s) ELSE n)

\* _extract_links: "continue" on an href that is empty, a fragment or a
\* javascript: URL, and on one whose absolute form is in seen_hrefs
LinkSkipped(href, base_url, links) ==
    \/ Falsy(href)
    \/ StartsWith(href, "#")
    \/ StartsWith(href, "javascript:")
    \/ \E j \in 1..Len(links) : links[j].href = Resolved(base_url, href)

\* _extract_links: one round of the loop over element.css('a[href]')
LinksRound(a, base_url, links) ==
    IF LinkSkipped(a.href, base_url, links) THEN links
    ELSE Append(links,
             [text |-> IF a.text = "" THEN "(no text)" ELSE a.text,
              href |-> Resolved(base_url, a.href)])

\* the rounds on the anchors lo..hi, in order: those of the first half of the
\* range, then those of the second half on the list the first half left
RECURSIVE LinksRounds(_, _, _, _, _)
LinksRounds(anchors, lo, hi, base_url, links) ==
    IF lo > hi THEN links
    ELSE IF lo = hi THEN LinksRound(anchors[lo], base_url, links)
    ELSE CHOOSE done \in
             {LinksRounds(anchors, ((lo + hi) \div 2) + 1, hi, base_url, half) :
                 half \in {LinksRounds(anchors, lo, (lo + hi) \div 2, base_url, links)}} :
             TRUE

\* _extract_links: the loop over element.css('a[href]') from anchor i on
LinksLoop(anchors, i, base_url, links) ==
    LinksRounds(anchors, i, Len(anchors), base_url, links)

ExtractLinksCapFirst(anchors, base_url) ==
    LinksLoop(Take(anchors, LinksCap), 1, base_url, <<>>)

\* HTMLParser._extract_links
ExtractLinks(anchors, base_url) ==
    Take(LinksLoop(anchors, 1, base_url, <<>>), LinksCap)

\* _extract_images: src = img.attributes.get('src') or img.attributes.get('data-src')
ImageSrc(img) == IF ~Falsy(img.src) THEN img.src ELSE img.data_src

\* _extract_images: "continue" on an image without source, and on one whose
\* absolute source is in seen_srcs
ImageSkipped(img, base_url, images) ==
    \/ Falsy(ImageSrc(img))
    \/ \E j \in 1..Len(images) : images[j].src = Resolved(base_url, ImageSrc(img))

\* _extract_images: one round of the loop over element.css('img')
ImagesRound(img, base_url, images) ==
    IF ImageSkipped(img, base_url, images) THEN images
    ELSE Append(images, [src |-> Resolved(base_url, ImageSrc(img)), alt |-> img.alt])

\* the rounds on the images lo..hi, in order: those of the first half of the
\* range, then those of the second half on the list the first half left
RECURSIVE ImagesRounds(_, _, _, _, _)
ImagesRounds(imgs, lo, hi, base_url, images) ==
    IF lo > hi THEN images
    ELSE IF lo = hi THEN ImagesRound(imgs[lo], base_url, images)
    ELSE CHOOSE done \in
             {ImagesRounds(imgs, ((lo + hi) \div 2) + 1, hi, base_url, half) :
                 half \in {ImagesRounds(imgs, lo, (lo + hi) \div 2, base_url, images)}} :
             TRUE

\* _extract_images: the loop over element.css('img') from image i on
ImagesLoop(imgs, i, base_url, images) ==
    ImagesRounds(imgs, i, Len(imgs), base_url, images)

\* HTMLParser._extract_images
ExtractImages(imgs, base_url) ==
    Take(ImagesLoop(imgs, 1, base_url, <<>>), ImagesCap)

\* HTMLParser._extract_lists: the stripped item texts that are not empty, for
\* every list that keeps an item
ExtractLists(uls) ==
    LET items(ul) == SelectSeq(ul, LAMBDA t : t # "")
        kept == SelectSeq(uls, LAMBDA ul : items(ul) # <<>>)
    IN  Take([i \in 1..Len(kept) |-> items(kept[i])], ListsCap)

\* HTMLParser._extract_tables: the rows that have a cell, for every table
\* that keeps a row
ExtractTables(tbls) ==
    LET rows(tb) == SelectSeq(tb, LAMBDA r : r # <<>>)
        kept == SelectSeq(tbls, LAMBDA tb : rows(tb) # <<>>)
    IN  Take([i \in 1..Len(kept) |-> rows(kept[i])], TablesCap)

\* _parse_section: the content dict, for the parts modelled
ParseSectionContent(el, base_url) ==
    [links  |-> ExtractLinks(el.anchors, base_url),
     images |-> ExtractImages(el.imgs, base_url),
     lists  |-> ExtractLists(el.uls),
     tables |-> ExtractTables(el.tbls)]

\* The elements handed to _parse_section.  Anchors: a prefix of special
\* hrefs, then n anchors of which every run of r consecutive ones names the
\* same page, alternately as a path and as an absolute URL.
SpecialPrefixes ==
    {<<>>, <<"none">>, <<"empty">>, <<"fragment">>, <<"js">>, <<"jsUpper">>,
     <<"mailto">>, <<"tel">>, <<"fragment", "js", "rel", "none">>}

AnchorRun(prefix, n, r) ==
    [i \in 1..Len(prefix) |-> [href |-> Attr(prefix[i], 0), text |-> ""]]
    \o [i \in 1..n |->
           [href |-> Attr(IF i % 2 = 1 THEN "rel" ELSE "abs", ((i - 1) \div r) + 1),
            text |-> "t"]]

\* Images: every run of r consecutive ones shares a source; every fifth has
\* only data-src, every seventh no source at all.
ImageRun(n, r) ==
    [i \in 1..n |->
        LET v == Attr(IF i % 2 = 1 THEN "rel" ELSE "abs", ((i - 1) \div r) + 1)
        IN  [src      |-> IF i % 5 = 0 \/ i % 7 = 0 THEN Attr("none", 0) ELSE v,
             data_src |-> IF i % 7 = 0 THEN Attr("none", 0) ELSE v,
             alt      |-> IF i % 3 = 0 THEN "" ELSE "alt"]]

\* Lists: every third has only blank items.
ListRun(n) ==
    [i \in 1..n |-> IF i % 3 = 0 THEN <<"", "">> ELSE <<"item", "", "item">>]

\* Tables: every third has no row with a cell.
TableRun(n) ==
    [i \in 1..n |-> IF i % 3 = 0 THEN <<<<>>>> ELSE <<<<"cell", "">>, <<>>>>]

Elements ==
    {[anchors |-> AnchorRun(p, n, r), imgs |-> ImageRun(m, r),
      uls |-> ListRun(l),
      tbls |-> TableRun(CASE l = 0 -> 0 [] l = ListsCap -> TablesCap [] OTHER -> MaxTables)] :
        p \in SpecialPrefixes,
        n \in {0, 1, LinksCap, LinksCap + 1, MaxAnchors},
        r \in {1, 2},
        m \in {0, ImagesCap + 1, MaxImages},
        l \in {0, ListsCap, MaxLists}}

EmptyElement == [anchors |-> <<>>, imgs |-> <<>>, uls |-> <<>>, tbls |-> <<>>]

\* ------------------------------------------------------------------ documents

HasText(sections) ==
    \E i \in 1..Len(sections) : sections[i].content.text # <<>>

\* the asserts of _validate_result, first failing one
ValidateResultChecked(doc) ==
    IF "url" \notin DOMAIN doc THEN Raise("Missing required field: url")
    ELSE IF "scrapedAt" \notin DOMAIN doc THEN Raise("Missing required field: scrapedAt")
    ELSE IF "meta" \notin DOMAIN doc THEN Raise("Missing required field: meta")
    ELSE IF "sections" \notin DOMAIN doc THEN Raise("Missing required field: sections")
    ELSE IF "interactions" \notin DOMAIN doc THEN Raise("Missing required field: interactions")
    ELSE IF Len(doc.sections) = 0 THEN Raise("sections must not be empty")
    ELSE IF ~HasText(doc.sections)
         THEN Raise("At least one section must have non-empty content.text")
    ELSE Ok(doc)

ValidateResultSkipped(doc) == Ok(doc)

\* UniversalScraper._validate_result
ValidateResult(doc) == ValidateResultChecked(doc)

\* UniversalScraper._create_error_response
CreateErrorResponse(u, error_msg, inter, errs) ==
    [url          |-> u,
     scrapedAt    |-> "now",
     meta         |-> [title |-> "Error", language |-> "en", strategy |-> "error"],
     sections     |-> <<[Section("unknown", 0, "Error", u, <<"Failed to scrape: ", error_msg>>)
                            EXCEPT !.id = [type |-> "error", ord |-> 0, page |-> 0]]>>,
     interactions |-> inter,
     errors       |-> errs]

\* ------------------------------------------------------------------ static fetch failures

\* What can go wrong in client.get of _try_static_scrape.
Causes ==
    {"http401", "http403", "http404", "httpOther", "connect", "timeout",
     "redirects", "other"}

Exc(ty, m) == [type |-> ty, msg |-> m]

\* _try_static_scrape: the exception that leaves it, by cause.  Every branch
\* but the last raises a plain Exception with a message of its own.
StaticException(cause) ==
    CASE cause = "http401" ->
           Exc("Exception", "Authentication required (401). Site requires login or API key.")
      [] cause = "http403" ->
           Exc("Exception", "Access forbidden (403). Site may be blocking automated requests.")
      [] cause = "http404" ->
           Exc("Exception", "Page not found (404). URL may be incorrect.")
      [] cause = "httpOther" ->
           Exc("Exception", "HTTP 500: Internal Server Error")
      [] cause = "connect" ->
           Exc("Exception", "Connection failed. Check firewall/network settings or try Playwright mode.")
      [] cause = "timeout" ->
           Exc("Exception", "Request timeout after 30 seconds")
      [] cause = "redirects" ->
           Exc("Exception", "Too many redirects")
      [] OTHER ->
           Exc("ReadError", "peer closed connection")

\* Python's "tok in s" for the tokens the categorisation looks for.
Contains(s, tok) ==
    CASE s = "Authentication required (401). Site requires login or API key." -> tok = "401"
      [] s = "Access forbidden (403). Site may be blocking automated requests." -> tok = "403"
      [] s = "Page not found (404). URL may be incorrect." -> tok = "404"
      [] s = "ReadError" -> tok \in {"ReadError", "Error"}
      [] s = "Exception" -> tok = "Exception"
      [] OTHER -> FALSE

\* scrape, "Categorize the error"
ErrorCategory(e) ==
    IF Contains(e.msg, "401") \/ Contains(e.msg, "Unauthorized") THEN "Authentication required"
    ELSE IF Contains(e.msg, "403") \/ Contains(e.msg, "Forbidden") THEN "Access forbidden"
    ELSE IF Contains(e.msg, "404") THEN "Page not found"
    ELSE IF Contains(e.type, "ConnectError") THEN "Connection failed"
    ELSE IF Contains(e.type, "Timeout") THEN "Request timeout"
    ELSE e.type

\* An entry of the errors list.  message is the sequence of the parts the
\* f-string joins; type is "" where the entry has no "type" key.
ErrorEntry(parts, ph, ty) == [message |-> parts, phase |-> ph, type |-> ty]

\* scrape: the entry appended when the static fetch raised e
StaticFetchError(e) ==
    ErrorEntry(<<ErrorCategory(e), e.msg>>, "static-fetch", e.type)

\* ------------------------------------------------------------------ rendered-browser run

\* _js_scrape: the messages of the exceptions it raises
JsFailures ==
    {"Playwright subprocess failed", "Playwright timeout",
     "Failed to parse Playwright output", "Navigation failed"}

\* scrape_with_playwright / _js_scrape: the interaction records a successful
\* run can report (clicks formatted as strings, scroll count, pages = [url])
JsInteractions(u) ==
    {[clicks |-> c, scrolls |-> n, pages |-> <<u>>] :
        c \in {<<>>, <<"[role=tab][0]: Pricing">>}, n \in {2, max_scrolls}}

\* The elements a click selector matches, by what the browser answers for
\* them: "ok" is visible, enabled and takes a plain click; "hidden" is not
\* visible; "disabled" is not enabled; "covered" takes a forced click only;
\* "inert" takes a script-level click only; "stuck" takes none; for "gone"
\* is_visible raises.
ClickKinds == {"ok", "hidden", "disabled", "covered", "inert", "stuck", "gone"}

Matching(ph, name, elems) ==
    [phase |-> ph, selector |-> name, raises |-> FALSE, elems |-> elems]

\* a selector for which page.query_selector_all raises
Failing(ph, name) == [phase |-> ph, selector |-> name, raises |-> TRUE, elems |-> <<>>]

\* What a page shows handle_clicks: the selectors of tab_selectors and
\* load_more_selectors that match something or fail, in the order they are
\* tried.
Targets ==
    {<<>>,
     <<Matching("tab", "[role=tab]", [i \in 1..6 |-> "ok"]),
       Matching("more", "button:has-text(Load more)", [i \in 1..4 |-> "ok"])>>,
     <<Matching("tab", "[role=tab]", [i \in 1..6 |-> "ok"]),
       Matching("tab", "[aria-selected=false]", [i \in 1..6 |-> "ok"]),
       Matching("more", "button:has-text(Load more)", <<"ok">>)>>,
     <<Matching("tab", "[role=tab]",
               <<"hidden", "disabled", "covered", "inert", "stuck", "ok">>),
       Matching("more", "button:has-text(Load more)", <<"gone", "ok">>)>>,
     <<Failing("tab", "nav button:not(.active)"),
       Matching("more", "button:has-text(Load more)", <<"ok">>)>>}

\* handle_clicks as it would be if it looped over elements, not a slice of them
SelectorCapMissing(m) == Len(m.elems)

\* handle_clicks: elements[:5] for a tab selector, elements[:3] for a
\* load-more selector
SelectorCap(m) == IF m.phase = "tab" THEN TabCap ELSE LoadMoreCap

\* handle_clicks: the three click strategies on one element; click_success
ClickSuccess(kind) == kind \in {"ok", "covered", "inert"}

\* handle_clicks: "for i, element in enumerate(elements[:cap])" from element
\* i on, with c clicks made so far; gives the clicks made, the records
\* appended and the kinds of step that failed
RECURSIVE ClickLoop(_, _, _, _, _)
ClickLoop(m, i, c, recs, fails) ==
    IF i > Len(m.elems) \/ i > SelectorCap(m) \/ c >= max_clicks
    THEN [clicked |-> c, clicks |-> recs, failures |-> fails]
    ELSE LET kind == m.elems[i]
         IN  IF kind = "gone" THEN ClickLoop(m, i + 1, c, recs, fails \cup {"query"})
             ELSE IF kind \in {"hidden", "disabled"} THEN ClickLoop(m, i + 1, c, recs, fails)
             ELSE IF ClickSuccess(kind)
             THEN ClickLoop(m, i + 1, c + 1,
                            Append(recs, [selector |-> m.selector, index |-> i - 1,
                                          text |-> "label"]),
                            IF kind = "ok" THEN fails ELSE fails \cup {"click"})
             ELSE ClickLoop(m, i + 1, c, recs, fails \cup {"click"})

\* _js_scrape: formatted_clicks, f"{click['selector']}[{click['index']}]: {click['text']}"
FormatClick(click) == <<click.selector, "[", click.index, "]: ", click.text>>

\* _js_scrape as it would be if it dropped the first entry of the helper's pages
FormatInteractionsPagesDropped(pw) ==
    [clicks |-> [i \in 1..Len(pw.clicks) |-> FormatClick(pw.clicks[i])],
     scrolls |-> pw.scrolls,
     pages |-> Tail(pw.pages)]

\* _js_scrape: the interactions it returns, built from the helper's
FormatInteractions(pw) ==
    [clicks |-> [i \in 1..Len(pw.clicks) |-> FormatClick(pw.clicks[i])],
     scrolls |-> pw.scrolls,
     pages |-> pw.pages]

\* str(e) of the exception the helper's handler caught, by the step that raised
HelperError(step) ==
    CASE step = "goto" -> "Navigation failed"
      [] step = "evaluate" -> "Evaluation failed"
      [] step = "content" -> "Content capture failed"
      [] OTHER -> "Close failed"

JsStrategyForced(failed) == "js-forced"

\* scrape: strategy = "js" if not static_failed else "js-forced"
JsStrategy(failed) == IF ~failed THEN "js" ELSE "js-forced"

\* ------------------------------------------------------------------ state

VARIABLES
    url,             \* the argument of scrape
    pc,              \* where the request stands: start, fetched, paginate, parse, done
    html,            \* scrape's html: <<>> or <<markup>>
    strategy,        \* scrape's strategy
    static_failed,   \* scrape's static_failed
    static_error,    \* scrape's static_error: <<>> or <<exception>>
    js_error,        \* scrape's js_error: <<>> or <<message>>
    errors,          \* scrape's errors list
    interactions,    \* scrape's interactions dict
    has_pagination,  \* scrape's has_pagination: "unset", "yes" or "no"
    html_pages,      \* _static_paginate's html_pages
    current_url,     \* _static_paginate's current_url: <<>> or <<url>>
    pages_visited,   \* _static_paginate's pages_visited
    all_html_pages,  \* scrape's all_html_pages
    result,          \* what scrape returned: <<>> or <<document>>
    raised,          \* an exception left scrape
    fetch_cause,     \* transport: how the first client.get failed, <<>> if it did not
    fetches,         \* transport: client.get calls made by _static_paginate
    fetch_failed,    \* transport: the URL whose pagination fetch failed, or <<>>
    js_runs,         \* rendered browser: calls of _js_scrape
    target,          \* what the page shows the browser: the elements each click selector matches
    apc,             \* where the helper process stands: idle, launch, context, goto, clicks, count,
                     \* scroll, content, close, handler, exit, unwind, ended, returned
    session,         \* the browser of the run: none, open or closed
    navigated,       \* page.goto returned
    sel_index,       \* handle_clicks: the selector the two loops stand at
    clicked,         \* handle_clicks' clicked
    scrolls_performed, \* scrape_with_playwright's scrolls_performed
    no_change_count, \* scrape_with_playwright's no_change_count
    barren,          \* the rounds in a row, up to now, in which neither height nor count grew
    step_failures,   \* the kinds of step that failed so far in the run
    pw_interactions, \* scrape_with_playwright's interactions
    pw_html_pages,   \* scrape_with_playwright's html_pages
    pw_error,        \* the exception the helper's handler caught: <<>> or <<step>>
    data,            \* the JSON document the helper printed: <<>> or <<result>>
    returncode,      \* how the helper process ended: none, 0, 1 or killed
    waiting,         \* the request suspended at an await while this one runs: <<>> or <<locals>>
    tree,            \* _extract_sections' tree: whether it has a body, and the body's elements
    xpc,             \* where _extract_sections stands: idle, landmarks, blocks, headings, finish, returned
    xcall,           \* the number of the tree.css call of the two selector loops, 1..14
    processed,       \* processed_elements: how many ids each tree.css call's loop added
    found_sections,  \* _extract_sections' found_sections
    found_by,        \* for every found section, the strategy that made it
    section_id,      \* _extract_sections' section_id
    element,         \* _parse_section's element
    content,         \* _parse_section's content: <<>> or <<dict>>
    calls,           \* the classifier's calls so far, with what each returned
    hp_pc,           \* where _handle_pagination stands: idle, select, goto, capture, returned
    hp_hn,           \* 'news.ycombinator.com' in page.url
    hp_url,          \* page.url: <<>> or <<url>>
    hp_shown,        \* the document the page shows: <<>> or <<markup>>
    hp_pages,        \* interactions["pages"] of _handle_pagination's caller
    hp_html_pages,   \* _handle_pagination's html_pages
    hp_visited,      \* _handle_pagination's pages_visited
    hp_next,         \* _handle_pagination's next_href: <<>> or <<url>>
    noise_removed    \* _remove_noise has run on the page of the browser

vars ==
    <<url, pc, html, strategy, static_failed, static_error, js_error, errors,
      interactions, has_pagination, html_pages, current_url, pages_visited,
      all_html_pages, result, raised, fetch_cause, fetches, fetch_failed, js_runs,
      target, apc, session, navigated, sel_index, clicked, scrolls_performed,
      no_change_count, barren, step_failures, pw_interactions, pw_html_pages,
      pw_error, data, returncode, waiting,
      tree, xpc, xcall, processed, found_sections, found_by, section_id,
      element, content, calls,
      hp_pc, hp_hn, hp_url, hp_shown, hp_pages, hp_html_pages, hp_visited, hp_next,
      noise_removed>>

\* the state of one request
request ==
    <<url, pc, html, strategy, static_failed, static_error, js_error, errors,
      interactions, has_pagination, html_pages, current_url, pages_visited,
      all_html_pages, result, raised, fetch_cause, fetches, fetch_failed, js_runs>>

\* what a request leaves alone
parsing == <<element, content>>

classifying == <<calls>>

extracting == <<tree, xpc, xcall, processed, found_sections, found_by, section_id>>

\* the state of one run of the helper process
acquiring ==
    <<target, apc, session, navigated, sel_index, clicked, scrolls_performed,
      no_change_count, barren, step_failures, pw_interactions, pw_html_pages,
      pw_error, data, returncode>>

\* the other task of the event loop
serving == <<waiting>>

\* the link pagination of a page in the browser
legacy == <<hp_pc, hp_hn, hp_url, hp_shown, hp_pages, hp_html_pages, hp_visited, hp_next>>

\* the cookie and consent overlays of the page in the browser
overlay == <<noise_removed>>

aside == <<parsing, classifying, extracting, acquiring, serving, legacy, overlay>>

paginator == <<html_pages, current_url, pages_visited, fetches, fetch_failed>>

fetchState == <<html, static_failed, static_error, fetch_cause>>

\* scrape, lines 40-51, before the first await
RequestInit ==
    /\ url \in StartUrls
    /\ pc = "start"
    /\ html = <<>>
    /\ strategy = "unknown"
    /\ static_failed = FALSE
    /\ static_error = <<>>
    /\ js_error = <<>>
    /\ errors = <<>>
    /\ interactions = [clicks |-> <<>>, scrolls |-> 0, pages |-> <<url>>]
    /\ has_pagination = "unset"
    /\ html_pages = <<>>
    /\ current_url = <<>>
    /\ pages_visited = 0
    /\ all_html_pages = <<>>
    /\ result = <<>>
    /\ raised = FALSE
    /\ fetch_cause = <<>>
    /\ fetches = 0
    /\ fetch_failed = <<>>
    /\ js_runs = 0

\* no _parse_section call under way
ParsingIdle == element = EmptyElement /\ content = <<>>

\* no classifier evaluation made
ClassifyingIdle == calls = <<>>

\* no _extract_sections call under way
ExtractingIdle ==
    /\ tree = NoTree
    /\ xpc = "idle"
    /\ xcall = 0
    /\ processed = NoneProcessed
    /\ found_sections = <<>>
    /\ found_by = <<>>
    /\ section_id = 0

\* no other request in the event loop
ServingIdle == waiting = <<>>

\* no link pagination under way
LegacyIdle ==
    /\ hp_pc = "idle"
    /\ hp_hn = FALSE
    /\ hp_url = <<>>
    /\ hp_shown = <<>>
    /\ hp_pages = <<>>
    /\ hp_html_pages = <<>>
    /\ hp_visited = 0
    /\ hp_next = <<>>
    /\ noise_removed = FALSE

\* no helper process started
AcquiringIdle ==
    /\ target = <<>>
    /\ apc = "idle"
    /\ session = "none"
    /\ navigated = FALSE
    /\ sel_index = 0
    /\ clicked = 0
    /\ scrolls_performed = 0
    /\ no_change_count = 0
    /\ barren = 0
    /\ step_failures = {}
    /\ pw_interactions = <<>>
    /\ pw_html_pages = <<>>
    /\ pw_error = <<>>
    /\ data = <<>>
    /\ returncode = "none"

Init ==
    /\ RequestInit
    /\ ParsingIdle
    /\ ClassifyingIdle
    /\ ExtractingIdle
    /\ AcquiringIdle
    /\ LegacyIdle
    /\ ServingIdle

\* ------------------------------------------------------------------ the outer handler

OuterExceptPropagates(msg, inter) ==
    /\ errors' = errors
    /\ result' = <<>>
    /\ raised' = TRUE
    /\ pc' = "done"

\* scrape, "except Exception as e" of the outer try: record and return an
\* error response
OuterExcept(msg, inter) ==
    /\ errors' = Append(errors, ErrorEntry(<<msg>>, "scrape", ""))
    /\ result' = <<CreateErrorResponse(url, msg, inter, errors')>>
    /\ raised' = FALSE
    /\ pc' = "done"

\* ------------------------------------------------------------------ static fetch

\* scrape: html, strategy = await self._try_static_scrape(url)
TryStaticScrapeOk ==
    /\ UNCHANGED aside
    /\ pc = "start"
    /\ \E h \in Corpus(url) : html' = <<h>>
    /\ strategy' = "static"
    /\ pc' = "fetched"
    /\ UNCHANGED <<url, static_failed, static_error, js_error, errors, interactions,
                   has_pagination, paginator, all_html_pages, result, raised,
                   fetch_cause, js_runs>>

\* scrape: the except branch around _try_static_scrape
TryStaticScrapeFail ==
    /\ UNCHANGED aside
    /\ pc = "start"
    /\ \E c \in Causes :
         LET e == StaticException(c)
         IN  /\ fetch_cause' = <<c>>
             /\ static_error' = <<e>>
             /\ errors' = Append(errors, StaticFetchError(e))
    /\ static_failed' = TRUE
    /\ pc' = "fetched"
    /\ UNCHANGED <<url, html, strategy, js_error, interactions, has_pagination,
                   paginator, all_html_pages, result, raised, js_runs>>

\* ------------------------------------------------------------------ choice of path

Truthy(h) == h # <<>> /\ ~h[1].empty

\* scrape: if static_failed or (html and self._needs_js_rendering(html, url))
UseRendering ==
    static_failed \/ (Truthy(html) /\ NeedsJsRendering(html[1], url))

\* scrape: all_html_pages, js_interactions = await self._js_scrape(url), success
JsScrapeReturned(pages, js_interactions) ==
    /\ js_runs' = js_runs + 1
    /\ all_html_pages' = pages
    /\ interactions' = js_interactions
    /\ strategy' = JsStrategy(static_failed)
    /\ pc' = "parse"
    /\ UNCHANGED <<url, fetchState, js_error, errors, has_pagination, paginator,
                   result, raised>>

\* the markup page.content() can return for a rendered page
Rendered(u) == {p \in Corpus(u) : p.bodyTags}

\* scrape: _js_scrape returned, the run taken as one step
JsScrapeOk ==
    /\ UNCHANGED aside
    /\ pc = "fetched"
    /\ UseRendering
    /\ \E h \in Rendered(url), i \in JsInteractions(url) : JsScrapeReturned(<<h>>, i)

\* scrape: if html and not static_failed
FallbackAvailable == Truthy(html) /\ ~static_failed

\* scrape: _js_scrape raised and a static page exists
\* scrape: "except Exception as e" around _js_scrape, "if html and not
\* static_failed"
\* the fallback as it would be if the failed run's interactions were kept
JsScrapeRaisedFallbackKeepsRun(m) ==
    /\ js_runs' = js_runs + 1
    /\ js_error' = <<m>>
    /\ errors' = Append(errors,
           ErrorEntry(<<"JS rendering failed", m>>, "js-fallback", ""))
    /\ all_html_pages' = <<html[1]>>
    /\ strategy' = "static-fallback"
    /\ pc' = "parse"
    /\ interactions' = IF data # <<>> THEN FormatInteractions(data[1].interactions)
                       ELSE interactions
    /\ UNCHANGED <<url, fetchState, has_pagination, paginator, result, raised>>

JsScrapeRaisedFallback(m) ==
    /\ js_runs' = js_runs + 1
    /\ js_error' = <<m>>
    /\ errors' = Append(errors,
           ErrorEntry(<<"JS rendering failed", m>>, "js-fallback", ""))
    /\ all_html_pages' = <<html[1]>>
    /\ strategy' = "static-fallback"
    /\ pc' = "parse"
    /\ UNCHANGED <<url, fetchState, interactions, has_pagination, paginator,
                   result, raised>>

JsScrapeFailFallback ==
    /\ UNCHANGED aside
    /\ pc = "fetched"
    /\ UseRendering
    /\ FallbackAvailable
    /\ \E m \in JsFailures : JsScrapeRaisedFallback(m)

\* scrape: _js_scrape raised and no static page exists
\* scrape: "except Exception as e" around _js_scrape, the else branch
JsScrapeRaisedComplete(m) ==
    /\ js_runs' = js_runs + 1
    /\ LET final_error == IF static_error # <<>> THEN static_error[1].msg ELSE m
       IN  /\ js_error' = <<m>>
           /\ errors' = Append(errors,
                  ErrorEntry(<<"All scraping methods failed">>, "complete-failure", ""))
           /\ result' = <<CreateErrorResponse(url, final_error, interactions, errors')>>
    /\ pc' = "done"
    /\ UNCHANGED <<url, fetchState, strategy, interactions, has_pagination,
                   paginator, all_html_pages, raised>>

JsScrapeFailComplete ==
    /\ UNCHANGED aside
    /\ pc = "fetched"
    /\ UseRendering
    /\ ~FallbackAvailable
    /\ \E m \in JsFailures : JsScrapeRaisedComplete(m)

\* scrape: the else branch without pagination
KeepStaticPage ==
    /\ UNCHANGED aside
    /\ pc = "fetched"
    /\ ~UseRendering
    /\ ~DetectStaticPagination(html[1], url)
    /\ has_pagination' = "no"
    /\ strategy' = "static"
    /\ all_html_pages' = <<html[1]>>
    /\ pc' = "parse"
    /\ UNCHANGED <<url, fetchState, js_error, errors, interactions, paginator,
                   result, raised, js_runs>>

\* ------------------------------------------------------------------ static paginator

\* scrape: the else branch with pagination; _static_paginate up to its loop
StaticPaginateBegin ==
    /\ UNCHANGED aside
    /\ pc = "fetched"
    /\ ~UseRendering
    /\ DetectStaticPagination(html[1], url)
    /\ has_pagination' = "yes"
    /\ html_pages' = <<html[1]>>
    /\ current_url' = <<url>>
    /\ pages_visited' = 1
    /\ pc' = "paginate"
    /\ UNCHANGED <<url, fetchState, strategy, js_error, errors, interactions,
                   all_html_pages, result, raised, fetches, fetch_failed, js_runs>>

LoopContinuesInclusive == pages_visited <= max_pages

\* _static_paginate: while pages_visited < self.max_pages
LoopContinues == pages_visited < max_pages

AlreadyVisitedStartOnly(u) == u = url

\* _static_paginate: if absolute_url in interactions["pages"]
AlreadyVisited(u) == u \in Range(interactions.pages)

\* next_href of the latest snapshot
next_href == NextHref(Last(html_pages))

\* absolute_url = urljoin(current_url, next_href)
absolute_url == UrlJoin(current_url[1], next_href[1])

\* _static_paginate returns html_pages; scrape sets the strategy
PaginatorReturns ==
    /\ all_html_pages' = html_pages'
    /\ strategy' = "static-paginated"
    /\ pc' = "parse"

\* _static_paginate: the loop ends at the cap, without a next link, or at a
\* visited URL
PaginateStop ==
    /\ UNCHANGED aside
    /\ pc = "paginate"
    /\ \/ ~LoopContinues
       \/ LoopContinues /\ next_href = <<>>
       \/ /\ LoopContinues
          /\ next_href # <<>>
          /\ ~UrlJoinRaises(next_href[1])
          /\ AlreadyVisited(absolute_url)
    /\ UNCHANGED paginator
    /\ PaginatorReturns
    /\ UNCHANGED <<url, fetchState, js_error, errors, interactions, has_pagination,
                   result, raised, js_runs>>

\* _static_paginate: urljoin raises outside the inner try; the exception
\* reaches scrape's outer handler
PaginateUrlJoinRaises ==
    /\ UNCHANGED aside
    /\ pc = "paginate"
    /\ LoopContinues
    /\ next_href # <<>>
    /\ UrlJoinRaises(next_href[1])
    /\ OuterExcept("Invalid IPv6 URL", interactions)
    /\ UNCHANGED <<url, fetchState, strategy, js_error, interactions, has_pagination,
                   paginator, all_html_pages, js_runs>>

CanFetchNext ==
    /\ pc = "paginate"
    /\ LoopContinues
    /\ next_href # <<>>
    /\ ~UrlJoinRaises(next_href[1])
    /\ ~AlreadyVisited(absolute_url)

\* _static_paginate: client.get succeeds; the snapshot and its URL are kept
PaginateFetchOk ==
    /\ UNCHANGED aside
    /\ CanFetchNext
    /\ fetches' = fetches + 1
    /\ \E h \in Corpus(absolute_url) : html_pages' = Append(html_pages, h)
    /\ interactions' = [interactions EXCEPT !.pages = Append(@, absolute_url)]
    /\ current_url' = <<absolute_url>>
    /\ pages_visited' = pages_visited + 1
    /\ UNCHANGED <<url, pc, fetchState, strategy, js_error, errors, has_pagination,
                   all_html_pages, result, raised, fetch_failed, js_runs>>

\* _static_paginate: client.get or raise_for_status raises; the inner
\* handler logs and breaks
PaginateFetchFail ==
    /\ UNCHANGED aside
    /\ CanFetchNext
    /\ fetches' = fetches + 1
    /\ fetch_failed' = <<absolute_url>>
    /\ UNCHANGED <<html_pages, current_url, pages_visited>>
    /\ PaginatorReturns
    /\ UNCHANGED <<url, fetchState, js_error, errors, interactions, has_pagination,
                   result, raised, js_runs>>

\* ------------------------------------------------------------------ parse, validate, return

\* scrape, lines 147-162: the merged document with its metadata, validated
AssembledFrom(merged) ==
    IF ~merged.ok THEN merged
    ELSE CHOOSE v \in {ValidateResult(doc) : doc \in
               {[url          |-> merged.val.url,
                meta         |-> [title    |-> merged.val.meta.title,
                                  language |-> merged.val.meta.language,
                                  strategy |-> strategy],
                sections     |-> merged.val.sections,
                scrapedAt    |-> "now",
                interactions |-> interactions,
                errors       |-> errors]}} : TRUE

Assembled ==
    CHOOSE a \in {AssembledFrom(merged) : merged \in {ParseAndMergePages(all_html_pages, url)}} : TRUE

\* scrape: return result
ReturnDocument ==
    /\ UNCHANGED aside
    /\ pc = "parse"
    /\ \E a \in {Assembled} : a.ok /\ result' = <<a.val>>
    /\ pc' = "done"
    /\ UNCHANGED <<url, fetchState, strategy, js_error, errors, interactions,
                   has_pagination, paginator, all_html_pages, raised, js_runs>>

\* scrape: parsing or validation raised; the outer handler returns an error
\* response
ReturnAfterException ==
    /\ UNCHANGED aside
    /\ pc = "parse"
    /\ \E a \in {Assembled} : ~a.ok /\ OuterExcept(a.msg, interactions)
    /\ UNCHANGED <<url, fetchState, strategy, js_error, interactions, has_pagination,
                   paginator, all_html_pages, js_runs>>

Next ==
    \/ TryStaticScrapeOk
    \/ TryStaticScrapeFail
    \/ JsScrapeOk
    \/ JsScrapeFailFallback
    \/ JsScrapeFailComplete
    \/ KeepStaticPage
    \/ StaticPaginateBegin
    \/ PaginateStop
    \/ PaginateUrlJoinRaises
    \/ PaginateFetchOk
    \/ PaginateFetchFail
    \/ ReturnDocument
    \/ ReturnAfterException

Spec == Init /\ [][Next]_vars

\* ------------------------------------------------------------------ the rendered run, step by step

\* what a step of the helper process leaves alone
outside == <<request, parsing, classifying, extracting, serving, legacy, overlay>>

\* scrape: await self._js_scrape(url); _js_scrape: subprocess.run([...,
\* "app/playwright_helper.py", url, str(self.max_scrolls)]);
\* scrape_with_playwright: interactions = {...}, html_pages = []
JsScrapeBegin ==
    /\ pc = "fetched"
    /\ UseRendering
    /\ pc' = "js"
    /\ target' \in Targets
    /\ apc' = "launch"
    /\ sel_index' = 1
    /\ pw_interactions' = [clicks |-> <<>>, scrolls |-> 0, pages |-> <<url>>]
    /\ UNCHANGED <<url, html, strategy, static_failed, static_error, js_error, errors,
                   interactions, has_pagination, html_pages, current_url,
                   pages_visited, all_html_pages, result, raised, fetch_cause,
                   fetches, fetch_failed, js_runs>>
    /\ UNCHANGED <<legacy, overlay, parsing, classifying, extracting, serving>>
    /\ UNCHANGED <<session, navigated, clicked, scrolls_performed, no_change_count,
                   barren, step_failures, pw_html_pages, pw_error, data, returncode>>

\* scrape_with_playwright: browser = await p.chromium.launch(headless=True)
Launch ==
    /\ apc = "launch"
    /\ \/ session' = "open" /\ apc' = "context"
       \/ session' = session /\ apc' = "unwind"
    /\ UNCHANGED outside
    /\ UNCHANGED <<target, navigated, sel_index, clicked, scrolls_performed,
                   no_change_count, barren, step_failures, pw_interactions,
                   pw_html_pages, pw_error, data, returncode>>

\* scrape_with_playwright: context = await browser.new_context(...); page =
\* await context.new_page(), both before the try
NewContextAndPage ==
    /\ apc = "context"
    /\ apc' \in {"goto", "unwind"}
    /\ UNCHANGED outside
    /\ UNCHANGED <<target, session, navigated, sel_index, clicked, scrolls_performed,
                   no_change_count, barren, step_failures, pw_interactions,
                   pw_html_pages, pw_error, data, returncode>>

\* scrape_with_playwright: await page.goto(url, ...), the wait for network
\* idle (its failure is passed over) and the sleep
Goto ==
    /\ apc = "goto"
    /\ \/ navigated' = TRUE /\ apc' = "clicks" /\ pw_error' = pw_error
       \/ navigated' = navigated /\ apc' = "handler" /\ pw_error' = <<"goto">>
    /\ UNCHANGED outside
    /\ UNCHANGED <<target, session, sel_index, clicked, scrolls_performed,
                   no_change_count, barren, step_failures, pw_interactions,
                   pw_html_pages, data, returncode>>

\* handle_clicks: one round of "for selector in tab_selectors" or of "for
\* selector in load_more_selectors": page.query_selector_all(selector)
\* raises, or every element of the slice is examined
ClickSelector ==
    /\ apc = "clicks"
    /\ sel_index <= Len(target)
    /\ clicked < max_clicks
    /\ IF target[sel_index].raises
       THEN /\ step_failures' = step_failures \cup {"query"}
            /\ UNCHANGED <<clicked, pw_interactions>>
       ELSE LET r == ClickLoop(target[sel_index], 1, clicked, <<>>, {})
            IN  /\ clicked' = r.clicked
                /\ pw_interactions' =
                      [pw_interactions EXCEPT !.clicks = @ \o r.clicks]
                /\ step_failures' = step_failures \cup r.failures
    /\ sel_index' = sel_index + 1
    /\ UNCHANGED outside
    /\ UNCHANGED <<target, apc, session, navigated, scrolls_performed, no_change_count,
                   barren, pw_html_pages, pw_error, data, returncode>>

\* handle_clicks: both loops ended (selectors used up, or clicked >=
\* max_clicks); return clicked
ClicksDone ==
    /\ apc = "clicks"
    /\ sel_index > Len(target) \/ clicked >= max_clicks
    /\ apc' = "count"
    /\ UNCHANGED outside
    /\ UNCHANGED <<target, session, navigated, sel_index, clicked, scrolls_performed,
                   no_change_count, barren, step_failures, pw_interactions,
                   pw_html_pages, pw_error, data, returncode>>

\* scrape_with_playwright: initial_count = await page.evaluate(...)
InitialCount ==
    /\ apc = "count"
    /\ \/ /\ apc' = "scroll"
          /\ UNCHANGED <<step_failures, pw_error>>
       \/ /\ apc' = "handler"
          /\ step_failures' = step_failures \cup {"evaluate"}
          /\ pw_error' = <<"evaluate">>
    /\ UNCHANGED outside
    /\ UNCHANGED <<target, session, navigated, sel_index, clicked, scrolls_performed,
                   no_change_count, barren, pw_interactions, pw_html_pages, data,
                   returncode>>

\* What a scroll round measured: "more" when the height or the count grew,
\* "same" when both are what they were, "less" when none grew and one shrank.
Measures == {"more", "same", "less"}

\* the round as it would be under "while True": only two rounds without
\* change end the loop (the counts stand still once they are at the cap)
ScrollRoundWithoutCap ==
    /\ apc = "scroll"
    /\ \/ /\ apc' = "handler"
          /\ step_failures' = step_failures \cup {"evaluate"}
          /\ pw_error' = <<"evaluate">>
          /\ scrolls_performed' = scrolls_performed
          /\ UNCHANGED <<no_change_count, barren, pw_interactions>>
       \/ \E measured \in Measures :
             LET no_change == IF measured = "same" THEN no_change_count + 1 ELSE 0
                 performed == IF scrolls_performed < max_scrolls
                              THEN scrolls_performed + 1 ELSE scrolls_performed
                 ended == no_change >= 2
             IN  /\ scrolls_performed' = performed
                 /\ no_change_count' = no_change
                 /\ barren' = IF measured = "more" THEN 0
                              ELSE IF barren < max_scrolls THEN barren + 1 ELSE barren
                 /\ apc' = IF ended THEN "content" ELSE "scroll"
                 /\ pw_interactions' =
                       IF ended
                       THEN [pw_interactions EXCEPT !.scrolls = performed]
                       ELSE pw_interactions
                 /\ UNCHANGED <<step_failures, pw_error>>
    /\ UNCHANGED outside
    /\ UNCHANGED <<target, session, navigated, sel_index, clicked, pw_html_pages, data,
                   returncode>>

\* scrape_with_playwright: one round of "for i in range(max_scrolls)".  An
\* evaluation raises before the scroll, or after it; else the round compares
\* what it measured and the loop goes on, breaks or is used up, and
\* interactions["scrolls"] = scrolls_performed follows the loop
ScrollRound ==
    /\ apc = "scroll"
    /\ \/ /\ apc' = "handler"
          /\ step_failures' = step_failures \cup {"evaluate"}
          /\ pw_error' = <<"evaluate">>
          /\ scrolls_performed' \in {scrolls_performed, scrolls_performed + 1}
          /\ UNCHANGED <<no_change_count, barren, pw_interactions>>
       \/ \E measured \in Measures :
             LET no_change == IF measured = "same" THEN no_change_count + 1 ELSE 0
                 ended == no_change >= 2 \/ scrolls_performed + 1 = max_scrolls
             IN  /\ scrolls_performed' = scrolls_performed + 1
                 /\ no_change_count' = no_change
                 /\ barren' = IF measured = "more" THEN 0 ELSE barren + 1
                 /\ apc' = IF ended THEN "content" ELSE "scroll"
                 /\ pw_interactions' =
                       IF ended
                       THEN [pw_interactions EXCEPT !.scrolls = scrolls_performed + 1]
                       ELSE pw_interactions
                 /\ UNCHANGED <<step_failures, pw_error>>
    /\ UNCHANGED outside
    /\ UNCHANGED <<target, session, navigated, sel_index, clicked, pw_html_pages, data,
                   returncode>>

\* the pages the browser of a run renders
RunRendered(u) == {Page(t, u) : t \in {"article", "listing", "shell", "broken"}}

\* scrape_with_playwright: html_pages.append(await page.content())
PageContent ==
    /\ apc = "content"
    /\ \/ /\ \E h \in RunRendered(url) : pw_html_pages' = <<h>>
          /\ apc' = "close"
          /\ pw_error' = pw_error
       \/ /\ apc' = "handler"
          /\ pw_error' = <<"content">>
          /\ pw_html_pages' = pw_html_pages
    /\ UNCHANGED outside
    /\ UNCHANGED <<target, session, navigated, sel_index, clicked, scrolls_performed,
                   no_change_count, barren, step_failures, pw_interactions, data,
                   returncode>>

\* scrape_with_playwright: await browser.close() of the try, and the return
\* of the success result
CloseBrowser ==
    /\ apc = "close"
    /\ \/ /\ session' = "closed"
          /\ data' = <<[success |-> TRUE, html_pages |-> pw_html_pages,
                        interactions |-> pw_interactions]>>
          /\ apc' = "exit"
          /\ pw_error' = pw_error
       \/ /\ apc' = "handler"
          /\ pw_error' = <<"close">>
          /\ UNCHANGED <<session, data>>
    /\ UNCHANGED outside
    /\ UNCHANGED <<target, navigated, sel_index, clicked, scrolls_performed,
                   no_change_count, barren, step_failures, pw_interactions,
                   pw_html_pages, returncode>>

\* scrape_with_playwright: "except Exception as e": await browser.close(),
\* then the return of the failure result; or browser.close() raises in turn
ErrorHandler ==
    /\ apc = "handler"
    /\ \/ /\ session' = "closed"
          /\ data' = <<[success |-> FALSE, html_pages |-> <<>>,
                        interactions |-> pw_interactions,
                        error |-> HelperError(pw_error[1])]>>
          /\ apc' = "exit"
       \/ /\ apc' = "unwind"
          /\ UNCHANGED <<session, data>>
    /\ UNCHANGED outside
    /\ UNCHANGED <<target, navigated, sel_index, clicked, scrolls_performed,
                   no_change_count, barren, step_failures, pw_interactions,
                   pw_html_pages, pw_error, returncode>>

\* the helper process is no more, and its variables with it
ProcessGone ==
    /\ sel_index' = 0
    /\ clicked' = 0
    /\ scrolls_performed' = 0
    /\ no_change_count' = 0
    /\ barren' = 0
    /\ pw_interactions' = <<>>
    /\ pw_html_pages' = <<>>

\* The end of "async with async_playwright() as p", reached by a return or by
\* an exception on its way out: the context manager stops the driver, and
\* with it the browser the driver started.  Then the process prints the
\* result and ends with 0, or ends with 1 on the traceback of asyncio.run.
ContextExit ==
    /\ apc \in {"exit", "unwind"}
    /\ session' = IF session = "open" THEN "closed" ELSE session
    /\ returncode' = IF apc = "exit" THEN "0" ELSE "1"
    /\ apc' = "ended"
    /\ ProcessGone
    /\ UNCHANGED outside
    /\ UNCHANGED <<target, navigated, step_failures, pw_error, data>>

\* _js_scrape: subprocess.run(..., timeout=90) runs out of time and kills the
\* helper process where it stands.  No statement of the helper runs any more;
\* the browser is a process of its own, which ends or not with the driver
\* that lost its parent.
SubprocessTimeout ==
    /\ apc \in {"launch", "context", "goto", "clicks", "count", "scroll", "content",
                "close", "handler", "exit", "unwind"}
    /\ returncode' = "killed"
    /\ session' \in IF session = "open" THEN {"open", "closed"} ELSE {session}
    /\ data' = <<>>
    /\ apc' = "ended"
    /\ ProcessGone
    /\ UNCHANGED outside
    /\ UNCHANGED <<target, navigated, step_failures, pw_error>>

\* _js_scrape: the exception raised after subprocess.run: TimeoutExpired,
\* returncode != 0, or not data.get("success")
JsScrapeRaises ==
    IF returncode = "killed" THEN <<"Playwright timeout">>
    ELSE IF returncode = "1" THEN <<"Playwright subprocess failed">>
    ELSE IF ~data[1].success THEN <<data[1].error>>
    ELSE <<>>

\* what the end of _js_scrape leaves alone
runEnd ==
    <<target, session, navigated, sel_index, clicked, scrolls_performed,
      no_change_count, barren, step_failures, pw_interactions, pw_html_pages,
      pw_error, data, returncode>>

\* _js_scrape: return html_pages, interactions; scrape goes on after the call
JsScrapeEndOk ==
    /\ pc = "js"
    /\ apc = "ended"
    /\ JsScrapeRaises = <<>>
    /\ JsScrapeReturned(data[1].html_pages, FormatInteractions(data[1].interactions))
    /\ apc' = "returned"
    /\ UNCHANGED <<legacy, overlay, parsing, classifying, extracting, serving, runEnd>>

\* _js_scrape raised and a static page exists
JsScrapeEndFallback ==
    /\ pc = "js"
    /\ apc = "ended"
    /\ JsScrapeRaises # <<>>
    /\ FallbackAvailable
    /\ JsScrapeRaisedFallback(JsScrapeRaises[1])
    /\ apc' = "returned"
    /\ UNCHANGED <<legacy, overlay, parsing, classifying, extracting, serving, runEnd>>

\* _js_scrape raised and no static page exists
JsScrapeEndComplete ==
    /\ pc = "js"
    /\ apc = "ended"
    /\ JsScrapeRaises # <<>>
    /\ ~FallbackAvailable
    /\ JsScrapeRaisedComplete(JsScrapeRaises[1])
    /\ apc' = "returned"
    /\ UNCHANGED <<legacy, overlay, parsing, classifying, extracting, serving, runEnd>>

\* the causes for which the static fetch of a run fails
RunCauses == {"http403", "timeout"}

RunStaticScrapeFail == TryStaticScrapeFail /\ fetch_cause'[1] \in RunCauses

\* scrape, with the run of the helper process taken step by step
RunNext ==
    \/ TryStaticScrapeOk
    \/ RunStaticScrapeFail
    \/ JsScrapeBegin
    \/ Launch
    \/ NewContextAndPage
    \/ Goto
    \/ ClickSelector
    \/ ClicksDone
    \/ InitialCount
    \/ ScrollRound
    \/ PageContent
    \/ CloseBrowser
    \/ ErrorHandler
    \/ ContextExit
    \/ SubprocessTimeout
    \/ JsScrapeEndOk
    \/ JsScrapeEndFallback
    \/ JsScrapeEndComplete
    \/ KeepStaticPage
    \/ StaticPaginateBegin
    \/ PaginateStop
    \/ PaginateUrlJoinRaises
    \/ PaginateFetchOk
    \/ PaginateFetchFail
    \/ ReturnDocument
    \/ ReturnAfterException

\* a request for a URL whose markup alone decides between the paths
RunInit == Init /\ url = Url("/list", 1)

RunSpec == RunInit /\ [][RunNext]_vars

\* Every step is a statement of scrape or of the helper that follows the
\* return or the failure of a collaborator call, all of which are bounded by
\* a timeout or taken to end: a run that can take a step takes one.
FairRunSpec == RunSpec /\ WF_vars(RunNext)

\* ------------------------------------------------------------------ the section parser alone

\* HTMLParser._parse_section called on an element, with the request's URL as
\* base_url
ParserInit ==
    /\ RequestInit
    /\ element \in Elements
    /\ content = <<>>
    /\ ClassifyingIdle
    /\ ExtractingIdle
    /\ AcquiringIdle
    /\ LegacyIdle
    /\ ServingIdle

\* _parse_section: content = {... "links": ..., "images": ..., "lists": ...,
\* "tables": ...}
ParseSection ==
    /\ content = <<>>
    /\ content' = <<ParseSectionContent(element, url)>>
    /\ UNCHANGED <<legacy, overlay, request, element, classifying, extracting, acquiring, serving>>

ParserNext == ParseSection

ParserSpec == ParserInit /\ [][ParserNext]_vars

\* ------------------------------------------------------------------ the classifier alone

\* Markup as the classifier reads it: framework or infinite-scroll marker,
\* <body> and </body> present, length of the body's text, what tags and
\* indentation add to the measured length, and the anchors the pagination
\* selectors match.
Markups ==
    {[marker |-> m, bodyTags |-> b, textLen |-> n, padding |-> w, links |-> l] :
        m \in {"none", "framework", "infinite"},
        b \in BOOLEAN,
        n \in {0, 120, LowTextThreshold - 1, LowTextThreshold,
                FrameworkTextThreshold - 1, FrameworkTextThreshold},
        w \in {0, LowTextThreshold},
        l \in {<<>>, <<Anchor("li.next a", HrefTo(Url("/list", 2)), "next")>>}}

\* Calls made between two evaluations on the same input.
Interludes ==
    {[marker |-> "none", bodyTags |-> TRUE, textLen |-> FrameworkTextThreshold,
      padding |-> 0, links |-> <<>>],
     [marker |-> "none", bodyTags |-> FALSE, textLen |-> 0, padding |-> 0,
      links |-> <<Anchor("a.next", HrefTo(Url("/list", 2)), "next")>>]}

ClassifySticky(h, u) ==
    [html |-> h, url |-> u,
     needs |-> NeedsJsRendering(h, u) \/ \E i \in 1..Len(calls) : calls[i].needs,
     pagination |-> DetectStaticPagination(h, u)]

\* One evaluation of the pair (_needs_js_rendering, _detect_static_pagination)
\* by the shared UniversalScraper: the functions read their arguments only.
Classify(h, u) ==
    [html |-> h, url |-> u,
     needs |-> NeedsJsRendering(h, u),
     pagination |-> DetectStaticPagination(h, u)]

ClassifierInit ==
    /\ RequestInit
    /\ ParsingIdle
    /\ calls = <<>>
    /\ ExtractingIdle
    /\ AcquiringIdle
    /\ LegacyIdle
    /\ ServingIdle

\* a first evaluation
ClassifyFirst ==
    /\ calls = <<>>
    /\ \E h \in Markups, u \in StartUrls : calls' = <<Classify(h, u)>>
    /\ UNCHANGED <<legacy, overlay, request, parsing, extracting, acquiring, serving>>

\* an evaluation for another request
ClassifyOther ==
    /\ Len(calls) = 1
    /\ \E h \in Interludes, u \in StartUrls : calls' = Append(calls, Classify(h, u))
    /\ UNCHANGED <<legacy, overlay, request, parsing, extracting, acquiring, serving>>

\* a second evaluation on the markup and URL of the first
ClassifyAgain ==
    /\ Len(calls) = 2
    /\ calls' = Append(calls, Classify(calls[1].html, calls[1].url))
    /\ UNCHANGED <<legacy, overlay, request, parsing, extracting, acquiring, serving>>

ClassifierNext == ClassifyFirst \/ ClassifyOther \/ ClassifyAgain

ClassifierSpec == ClassifierInit /\ [][ClassifierNext]_vars

\* ------------------------------------------------------------------ two requests, one event loop

\* Two calls of scrape on the one UniversalScraper of main.py run as tasks
\* of one event loop.  One task runs at a time; the other is suspended at an
\* await, its locals kept in its frame.

\* scrape, lines 40-51: the locals of a call that has not yet run
InitialRequest(u) ==
    [url            |-> u,
     pc             |-> "start",
     html           |-> <<>>,
     strategy       |-> "unknown",
     static_failed  |-> FALSE,
     static_error   |-> <<>>,
     js_error       |-> <<>>,
     errors         |-> <<>>,
     interactions   |-> [clicks |-> <<>>, scrolls |-> 0, pages |-> <<u>>],
     has_pagination |-> "unset",
     html_pages     |-> <<>>,
     current_url    |-> <<>>,
     pages_visited  |-> 0,
     all_html_pages |-> <<>>,
     result         |-> <<>>,
     raised         |-> FALSE,
     fetch_cause    |-> <<>>,
     fetches        |-> 0,
     fetch_failed   |-> <<>>,
     js_runs        |-> 0]

\* the locals of the running call
Running ==
    [url            |-> url,
     pc             |-> pc,
     html           |-> html,
     strategy       |-> strategy,
     static_failed  |-> static_failed,
     static_error   |-> static_error,
     js_error       |-> js_error,
     errors         |-> errors,
     interactions   |-> interactions,
     has_pagination |-> has_pagination,
     html_pages     |-> html_pages,
     current_url    |-> current_url,
     pages_visited  |-> pages_visited,
     all_html_pages |-> all_html_pages,
     result         |-> result,
     raised         |-> raised,
     fetch_cause    |-> fetch_cause,
     fetches        |-> fetches,
     fetch_failed   |-> fetch_failed,
     js_runs        |-> js_runs]

\* the suspended call goes on with its own locals
Resume(r) ==
    /\ url' = r.url
    /\ pc' = r.pc
    /\ html' = r.html
    /\ strategy' = r.strategy
    /\ static_failed' = r.static_failed
    /\ static_error' = r.static_error
    /\ js_error' = r.js_error
    /\ errors' = r.errors
    /\ interactions' = r.interactions
    /\ has_pagination' = r.has_pagination
    /\ html_pages' = r.html_pages
    /\ current_url' = r.current_url
    /\ pages_visited' = r.pages_visited
    /\ all_html_pages' = r.all_html_pages
    /\ result' = r.result
    /\ raised' = r.raised
    /\ fetch_cause' = r.fetch_cause
    /\ fetches' = r.fetches
    /\ fetch_failed' = r.fetch_failed
    /\ js_runs' = r.js_runs

\* Where a call can be suspended: at "await client.get(...)" of
\* _try_static_scrape and of _static_paginate, and at its return.  The call
\* of _js_scrape never suspends: subprocess.run blocks the event loop.
AwaitPoints == {"start", "paginate", "done"}

\* the switch as it would be if interactions were an attribute of the scraper
SwitchSharingInteractions ==
    /\ waiting # <<>>
    /\ pc \in AwaitPoints
    /\ waiting[1].pc # "done"
    /\ waiting' = <<Running>>
    /\ Resume([waiting[1] EXCEPT !.interactions = interactions])
    /\ UNCHANGED <<legacy, overlay, parsing, classifying, extracting, acquiring>>

\* the event loop suspends the running call at an await and resumes the other
Switch ==
    /\ waiting # <<>>
    /\ pc \in AwaitPoints
    /\ waiting[1].pc # "done"
    /\ waiting' = <<Running>>
    /\ Resume(waiting[1])
    /\ UNCHANGED <<legacy, overlay, parsing, classifying, extracting, acquiring>>

\* the pages and the fetch failures of the two requests
ServedTemplates == {"article", "listing", "shell", "badhref"}

ServedCauses == {"http403"}

Served ==
    /\ \A i \in 1..Len(html) : html[i].title \in ServedTemplates
    /\ \A i \in 1..Len(html_pages) : html_pages[i].title \in ServedTemplates
    /\ \A i \in 1..Len(all_html_pages) : all_html_pages[i].title \in ServedTemplates
    /\ \A i \in 1..Len(fetch_cause) : fetch_cause[i] \in ServedCauses

\* scrape as the running call, on these pages and failures
ConcurrentNext ==
    \/ Switch
    \/ TryStaticScrapeOk /\ Served'
    \/ TryStaticScrapeFail /\ Served'
    \/ JsScrapeOk /\ Served'
    \/ JsScrapeFailFallback
    \/ JsScrapeFailComplete
    \/ KeepStaticPage
    \/ StaticPaginateBegin
    \/ PaginateStop
    \/ PaginateUrlJoinRaises
    \/ PaginateFetchOk /\ Served'
    \/ PaginateFetchFail
    \/ ReturnDocument
    \/ ReturnAfterException

ConcurrentInit ==
    /\ RequestInit
    /\ ParsingIdle
    /\ ClassifyingIdle
    /\ ExtractingIdle
    /\ AcquiringIdle
    /\ LegacyIdle
    /\ url = Url("/list", 1)
    /\ waiting = <<InitialRequest(Url("/page", 1))>>

ConcurrentSpec == ConcurrentInit /\ [][ConcurrentNext]_vars

\* ------------------------------------------------------------------ the discovery strategies alone

ExtractorInit ==
    /\ RequestInit
    /\ ParsingIdle
    /\ ClassifyingIdle
    /\ AcquiringIdle
    /\ LegacyIdle
    /\ ServingIdle
    /\ tree \in Trees
    /\ xpc = "landmarks"
    /\ xcall = 1
    /\ processed = NoneProcessed
    /\ found_sections = <<>>
    /\ found_by = <<>>
    /\ section_id = 0

\* the sections one selector's loop appends: one per element at the positions
\* kept, numbered from section_id on
Appended(kept, default_type) ==
    [i \in 1..Len(kept) |->
        ParsedElement(tree.elems[kept[i]], url, section_id + i - 1, default_type)]

\* _extract_sections, Strategy 1: one round of "for tag, section_type in
\* landmarks", all of "for element in elements"
LandmarkCall ==
    /\ xpc = "landmarks"
    /\ LET lm == Landmarks[xcall]
           Matched(i) == tree.elems[i].tag = lm.tag
           matches == Positions(tree.elems, Matched)
       IN  \E hit \in SUBSET Range(matches) :
              /\ Cardinality(hit) <= StaleIds(processed, xcall)
              /\ LET Kept(i) == Matched(i) /\ i \notin hit /\ tree.elems[i].chars > 0
                     kept == Positions(tree.elems, Kept)
                     found == found_sections \o Appended(kept, lm.type)
                 IN  /\ processed' = [processed EXCEPT
                                         ![xcall] = Len(matches) - Cardinality(hit)]
                     /\ found_sections' = found
                     /\ found_by' = found_by \o [i \in 1..Len(kept) |-> "landmark"]
                     /\ section_id' = section_id + Len(kept)
                     /\ xcall' = xcall + 1
                     /\ xpc' = IF xcall < Len(Landmarks) THEN "landmarks"
                               ELSE IF Len(found) < 5 THEN "blocks"
                               ELSE IF Len(found) < 3 THEN "headings"
                               ELSE "finish"
    /\ UNCHANGED <<legacy, overlay, request, parsing, classifying, acquiring, serving, tree>>

\* _extract_content_blocks: one round of "for selector in content_selectors",
\* all of "for element in elements"
ContentCall ==
    /\ xpc = "blocks"
    /\ LET sel == ContentSelectors[xcall - Len(Landmarks)]
           Matched(i) == MatchesSelector(tree.elems[i], sel)
           matches == Positions(tree.elems, Matched)
       IN  \E hit \in SUBSET Range(matches) :
              /\ Cardinality(hit) <= StaleIds(processed, xcall)
              /\ LET Kept(i) == Matched(i) /\ i \notin hit /\ tree.elems[i].chars > 50
                     kept == Positions(tree.elems, Kept)
                     found == found_sections \o Appended(kept, "section")
                 IN  /\ processed' = [processed EXCEPT ![xcall] = Len(kept)]
                     /\ found_sections' = found
                     /\ found_by' = found_by \o [i \in 1..Len(kept) |-> "block"]
                     /\ section_id' = section_id + Len(kept)
                     /\ xcall' = xcall + 1
                     /\ xpc' = IF xcall < Len(Landmarks) + Len(ContentSelectors)
                               THEN "blocks"
                               ELSE IF Len(found) < 3 THEN "headings"
                               ELSE "finish"
    /\ UNCHANGED <<legacy, overlay, request, parsing, classifying, acquiring, serving, tree>>

\* _extract_by_headings: one section per h1, h2 or h3, made of the heading
\* and what follows it up to the next heading, numbered start_id + i whether
\* or not earlier ones were kept; the temporary container has no class
HeadingStrategy ==
    /\ xpc = "headings"
    /\ LET IsHeading(i) == tree.elems[i].tag \in {"h1", "h2", "h3"}
           headings == Positions(tree.elems, IsHeading)
           Kept(i) == tree.elems[headings[i]].chars > 0
                      \/ \E j \in (headings[i] + 1)..Len(tree.elems) :
                            /\ \A m \in (headings[i] + 1)..j : ~IsHeading(m)
                            /\ tree.elems[j].chars > 0
           kept == Positions(headings, Kept)
       IN  /\ found_sections' = found_sections \o
                 [i \in 1..Len(kept) |->
                     Section("section", section_id + kept[i] - 1, "heading", url,
                             <<"text">>)]
           /\ found_by' = found_by \o [i \in 1..Len(kept) |-> "heading"]
    /\ xpc' = "finish"
    /\ UNCHANGED <<legacy, overlay, request, parsing, classifying, acquiring, serving, tree, xcall, processed,
                   section_id>>

\* _extract_sections, "If still no sections, create one from body" and
\* "Ensure we always return at least one section"
ExtractFinish ==
    /\ xpc = "finish"
    /\ IF found_sections # <<>>
       THEN UNCHANGED <<found_sections, found_by>>
       ELSE IF tree.body
       THEN /\ found_sections' = <<BodySection(TreePage(tree), url)>>
            /\ found_by' = <<"body">>
       ELSE /\ found_sections' = <<PlaceholderSection(url)>>
            /\ found_by' = <<"placeholder">>
    /\ xpc' = "returned"
    /\ UNCHANGED <<legacy, overlay, request, parsing, classifying, acquiring, serving, tree, xcall, processed,
                   section_id>>

ExtractorNext == LandmarkCall \/ ContentCall \/ HeadingStrategy \/ ExtractFinish

ExtractorSpec == ExtractorInit /\ [][ExtractorNext]_vars

\* ------------------------------------------------------------------ vocabulary of the claims

Returned == pc = "done" /\ result # <<>>

DocFields == {"url", "scrapedAt", "meta", "sections", "interactions", "errors"}

Phases == {"static-fetch", "js-fallback", "complete-failure", "scrape"}

Strategies == {"static", "static-paginated", "js", "js-forced", "static-fallback", "error"}

IsErrorDocument(d) ==
    Len(d.sections) = 1 /\ d.sections[1].id = [type |-> "error", ord |-> 0, page |-> 0]

HasPhase(errs, ph) == \E i \in 1..Len(errs) : errs[i].phase = ph

HasMessage(errs, m) == \E i \in 1..Len(errs) : m \in Range(errs[i].message)

NoDuplicates(s) == \A i, j \in 1..Len(s) : s[i] = s[j] => i = j

\* ------------------------------------------------------------------ C1

C2_SectionsNonEmptyWithText ==
    Returned =>
        /\ Len(result[1].sections) > 0
        /\ \E i \in 1..Len(result[1].sections) :
             result[1].sections[i].content.text # <<>>

\* C2 witness: a page whose only section has empty text was collected and a
\* document was returned for it.
C2_Witness ==
    /\ Returned
    /\ all_html_pages # <<>>
    /\ \A k \in 1..Len(all_html_pages) :
         /\ ~all_html_pages[k].raises
         /\ ~HasText(ExtractSections(all_html_pages[k], url))

\* ------------------------------------------------------------------ C3

\* C3 (as claimed): after a successful fetch for which the classifier says
\* both "needs rendering" and "has static pagination", the static paginator
\* runs and the acquirer is never started; the acquirer runs after a
\* successful fetch only if rendering is needed and no pagination is detected.
C3_PaginationBeforeRendering ==
    (pc \in {"paginate", "parse", "done"} /\ ~static_failed /\ Truthy(html)) =>
        /\ (NeedsJsRendering(html[1], url) /\ DetectStaticPagination(html[1], url)) =>
              (js_runs = 0 /\ has_pagination = "yes")
        /\ js_runs > 0 =>
              (NeedsJsRendering(html[1], url) /\ ~DetectStaticPagination(html[1], url))

\* ------------------------------------------------------------------ C4

\* C4 (as claimed): after a 403 the error is categorised as forbidden and
\* rendering is forced; if rendering fails too the result is an error
\* document with strategy "error" whose errors hold both the static-fetch
\* message and the rendering failure message.
C4_BothFailureMessagesRecorded ==
    (pc = "done" /\ fetch_cause = <<"http403">>) =>
        /\ errors[1].phase = "static-fetch"
        /\ errors[1].message[1] = "Access forbidden"
        /\ js_runs = 1
        /\ js_error # <<>> =>
             /\ IsErrorDocument(result[1])
             /\ result[1].meta.strategy = "error"
             /\ HasMessage(result[1].errors, static_error[1].msg)
             /\ HasMessage(result[1].errors, js_error[1])

\* ------------------------------------------------------------------ C5

\* The category the claim gives each cause ("other" is the exception's type).
ClaimedCategory(cause) ==
    CASE cause = "http401" -> "Authentication required"
      [] cause = "http403" -> "Access forbidden"
      [] cause = "http404" -> "Page not found"
      [] cause = "connect" -> "Connection failed"
      [] cause = "timeout" -> "Request timeout"
      [] OTHER -> StaticException(cause).type

\* C5 (as claimed): a failed static fetch is recorded with the category of
\* its cause, and the run then goes to the rendering path without running
\* the classifier's pagination check or the static paginator.
C5_CategoryMatchesCause ==
    fetch_cause # <<>> =>
        /\ errors[1].phase = "static-fetch"
        /\ errors[1].message[1] = ClaimedCategory(fetch_cause[1])
        /\ has_pagination = "unset"
        /\ html_pages = <<>>
        /\ pc = "done" => js_runs = 1

\* ------------------------------------------------------------------ C6

\* C6 (as claimed, for runs in which extraction itself does not raise): when
\* the fetch succeeded, rendering was chosen and the acquirer failed, the
\* returned document holds exactly the static page's sections, has strategy
\* static-fallback and one error, of phase js-fallback; when the fetch had
\* failed the result is an error document.
C6_FallbackDocumentReturned ==
    (pc = "done" /\ js_error # <<>>) =>
        IF static_failed
        THEN IsErrorDocument(result[1])
        ELSE ~html[1].raises =>
               /\ result[1].sections = ExtractSections(html[1], url)
               /\ result[1].meta.strategy = "static-fallback"
               /\ Len(result[1].errors) = 1
               /\ result[1].errors[1].phase = "js-fallback"

\* ------------------------------------------------------------------ C7

C8_PaginatorBounded ==
    has_pagination = "yes" =>
        /\ html_pages # <<>>
        /\ html_pages[1] = html[1]
        /\ Len(html_pages) <= max_pages
        /\ fetches <= max_pages - 1
        /\ Len(html_pages) = Len(interactions.pages)
        /\ pc \in {"parse", "done"} /\ all_html_pages # <<>> =>
             all_html_pages = html_pages

\* C8 witness: the paginator returned at the page cap while the last
\* snapshot still links to a page not yet visited.
C8_Witness ==
    /\ pc = "parse"
    /\ has_pagination = "yes"
    /\ Len(all_html_pages) = max_pages
    /\ fetches = max_pages - 1
    /\ next_href # <<>>
    /\ ~UrlJoinRaises(next_href[1])
    /\ ~AlreadyVisited(absolute_url)

\* ------------------------------------------------------------------ C9

\* C9: the visited list starts with the start URL and never holds a URL
\* twice, and a URL whose fetch was attempted and failed is not in it; once
\* the paginator has returned without a failed fetch, it stopped at the cap,
\* at a snapshot without a next candidate, or at a candidate that resolves
\* to a visited URL; and a first page linking to page 2 whose markup has no
\* next link yields exactly 2 snapshots from exactly 1 fetch.
C9_NoRevisit ==
    has_pagination = "yes" =>
        /\ interactions.pages[1] = url
        /\ NoDuplicates(interactions.pages)
        /\ fetch_failed # <<>> => fetch_failed[1] \notin Range(interactions.pages)
        /\ (pc = "parse" /\ fetch_failed = <<>>) =>
             \/ ~LoopContinues
             \/ next_href = <<>>
             \/ /\ ~UrlJoinRaises(next_href[1])
                /\ absolute_url \in Range(interactions.pages)
        /\ ( /\ pc = "parse"
             /\ NextHref(html_pages[1]) = <<HrefTo(Url(url.path, 2))>>
             /\ Len(html_pages) >= 2
             /\ NextHref(html_pages[2]) = <<>> ) =>
             (Len(all_html_pages) = 2 /\ fetches = 1)

\* C9 witness: the paginator stopped on the second page because its next
\* candidate resolves to a URL already visited.
C9_Witness ==
    /\ pc = "parse"
    /\ has_pagination = "yes"
    /\ Len(html_pages) = 2
    /\ LoopContinues
    /\ next_href # <<>>
    /\ ~UrlJoinRaises(next_href[1])
    /\ AlreadyVisited(absolute_url)

\* ------------------------------------------------------------------ C10

\* C10 (as claimed): a failed fetch ends pagination; the snapshots and visited
\* URLs are those of the successful fetches, the failed URL is not among
\* them, the failure puts nothing in errors, and the returned document has
\* strategy static-paginated and is not an error document.
C10_FetchFailureIsPartialSuccess ==
    fetch_failed # <<>> =>
        /\ pc \in {"parse", "done"}
        /\ all_html_pages = html_pages
        /\ Len(html_pages) = fetches
        /\ Len(interactions.pages) = fetches
        /\ fetch_failed[1] \notin Range(interactions.pages)
        /\ pc = "parse" => errors = <<>>
        /\ pc = "done" =>
             /\ result # <<>>
             /\ ~IsErrorDocument(result[1])
             /\ result[1].meta.strategy = "static-paginated"

\* ------------------------------------------------------------------ vocabulary of the merger claims

\* The merger has run on the collected pages and returned.
Merged == ParseAndMergePages(all_html_pages, url)

MergerReturned ==
    pc \in {"parse", "done"} /\ all_html_pages # <<>> /\ Merged.ok

\* The sections extraction yields for page k alone (none when it raises).
PageSections(k) ==
    LET r == Parse(all_html_pages[k], url)
    IN  IF r.ok THEN r.val.sections ELSE <<>>

\* Number of sections of the pages before page k.
RECURSIVE SectionsBefore(_)
SectionsBefore(k) ==
    IF k <= 1 THEN 0 ELSE SectionsBefore(k - 1) + Len(PageSections(k - 1))

\* ------------------------------------------------------------------ C11

\* C11: the merged document holds exactly the sum of the per-page section
\* counts, page after page in page order; every section of page k > 1 has
\* the identifier suffix -page{k}, page 1's have none; no two sections share
\* an identifier; and a document returned after the merge holds these
\* sections.
C11_MergeCountsAndIdentifiers ==
    MergerReturned =>
        LET m == Merged.val.sections
            n == Len(all_html_pages)
        IN  /\ Len(m) = SectionsBefore(n + 1)
            /\ \A k \in 1..n : \A i \in 1..Len(PageSections(k)) :
                  LET got == m[SectionsBefore(k) + i]
                      own == PageSections(k)[i]
                  IN  /\ got.id.type = own.id.type
                      /\ got.id.ord = own.id.ord
                      /\ got.id.page = IF k = 1 THEN 0 ELSE k
                      /\ got.content = own.content
            /\ NoDuplicates([i \in 1..Len(m) |-> m[i].id])
            /\ (Returned /\ ~IsErrorDocument(result[1])) => result[1].sections = m

\* C11 witness: a document merged from three or more pages, each of which
\* yields sections with the same per-page identifiers, was returned.
C11_Witness ==
    /\ Returned
    /\ ~IsErrorDocument(result[1])
    /\ Len(all_html_pages) >= 3
    /\ \A k \in 1..Len(all_html_pages) :
         /\ Parse(all_html_pages[k], url).ok
         /\ PageSections(k)[1].id = PageSections(1)[1].id

\* ------------------------------------------------------------------ C12

\* C12: the merger leaves page 1's sections and the meta derived from page 1
\* as extraction gave them; a section of page k > 1 differs from what
\* extraction gave only in its identifier (suffix -page{k}) and its label
\* (suffix " (Page {k})"): type, sourceUrl, content, rawHtml and truncated
\* are unchanged.
C12_MergeFrame ==
    MergerReturned =>
        LET m == Merged.val.sections
            first == Parse(all_html_pages[1], url).val
        IN  /\ Merged.val.meta = first.meta
            /\ Merged.val.url = first.url
            /\ SubSeq(m, 1, Len(first.sections)) = first.sections
            /\ \A k \in 2..Len(all_html_pages) : \A i \in 1..Len(PageSections(k)) :
                  LET got == m[SectionsBefore(k) + i]
                      own == PageSections(k)[i]
                  IN  /\ got.id = [own.id EXCEPT !.page = k]
                      /\ got.label = [own.label EXCEPT !.page = k]
                      /\ got.type = own.type
                      /\ got.sourceUrl = own.sourceUrl
                      /\ got.content = own.content
                      /\ got.rawHtml = own.rawHtml
                      /\ got.truncated = own.truncated
                      /\ DOMAIN got = DOMAIN own

\* C12 witness: the merger returned for two or more pages whose last page
\* has another title than the first and yields a section.
C12_Witness ==
    /\ MergerReturned
    /\ Len(all_html_pages) >= 2
    /\ Last(all_html_pages).title # all_html_pages[1].title
    /\ PageSections(Len(all_html_pages)) # <<>>

\* ------------------------------------------------------------------ C13

\* C13 (as claimed): when extraction raises for one collected page, whichever
\* it is, the run still returns a document that holds the sections of every
\* other collected page.
C13_FailedPageAloneDropped ==
    (pc = "done" /\ Len(all_html_pages) >= 2) =>
        \A f \in 1..Len(all_html_pages) :
            ( /\ ~Parse(all_html_pages[f], url).ok
              /\ \A k \in 1..Len(all_html_pages) :
                    k # f => Parse(all_html_pages[k], url).ok ) =>
            /\ result # <<>>
            /\ ~IsErrorDocument(result[1])
            /\ \A k \in 1..Len(all_html_pages) : k # f =>
                  \A i \in 1..Len(PageSections(k)) :
                    \E j \in 1..Len(result[1].sections) :
                        result[1].sections[j].content = PageSections(k)[i].content
                        /\ result[1].sections[j].rawHtml = PageSections(k)[i].rawHtml

\* ------------------------------------------------------------------ vocabulary of the extractor claims

\* The pages handed to the extractor in this run.
Collected == IF pc \in {"parse", "done"} THEN Range(all_html_pages) ELSE {}

\* ------------------------------------------------------------------ C14

C15_BodyOnlyWithText ==
    \A h \in Collected :
        (Parse(h, url).ok /\ h.found = 0) =>
            LET secs == Parse(h, url).val.sections
            IN  /\ Len(secs) = 1
                /\ secs[1].content.text # <<>>
                /\ IF h.treeBody /\ h.bodyText # ""
                   THEN /\ secs[1].content.text = <<h.bodyText>>
                        /\ secs[1].id.type = "unknown"
                   ELSE /\ secs[1].content.text = <<"No content extracted">>
                        /\ secs[1].id.type = "default"

\* ------------------------------------------------------------------ C16

\* C16 (as claimed): when extraction returned for the collected pages, the
\* merged document has a section with text, validation passes and the
\* returned document is not an error document.
C16_ValidationNeverFails ==
    MergerReturned =>
        /\ HasText(Merged.val.sections)
        /\ Assembled.ok
        /\ Returned => ~IsErrorDocument(result[1])

\* ------------------------------------------------------------------ C17

\* C17 (as claimed): every link of an extracted section has an absolute href
\* with scheme http or https; no fragment-only link, no javascript: link in
\* any letter case, and no mailto: or tel: link appears.
C17_LinksAreHttp ==
    content # <<>> =>
        \A i \in 1..Len(content[1].links) :
            content[1].links[i].href.scheme \in {"http", "https"}

\* ------------------------------------------------------------------ C18

\* The resolved values of the anchors (images) that are links (have a
\* source), in document order.
LinkCandidates ==
    LET a == SelectSeq(element.anchors,
                 LAMBDA x : x.href.kind \notin {"none", "empty", "fragment", "js"})
    IN  [i \in 1..Len(a) |-> Resolved(url, a[i].href)]

ImageCandidates ==
    LET withSrc == SelectSeq(element.imgs,
                       LAMBDA x : x.src.kind # "none" \/ x.data_src.kind # "none")
    IN  [i \in 1..Len(withSrc) |->
            Resolved(url, IF withSrc[i].src.kind # "none"
                          THEN withSrc[i].src ELSE withSrc[i].data_src)]

\* got is the first cap distinct values of cands, in the order of their
\* first occurrence.
FirstDistinct(cands, cap, got) ==
    LET first(v) == CHOOSE i \in 1..Len(cands) :
                        cands[i] = v /\ \A j \in 1..(i - 1) : cands[j] # v
        pos == [j \in 1..Len(got) |-> first(got[j])]
    IN  /\ Len(got) <= cap
        /\ \A j \in 1..Len(got) : got[j] \in Range(cands)
        /\ \A j \in 1..(Len(got) - 1) : pos[j] < pos[j + 1]
        /\ \A i \in 1..Len(cands) :
              Cardinality({cands[x] : x \in 1..i}) <= cap => cands[i] \in Range(got)

\* C18: a section has at most 50 links, 20 images, 10 lists and 5 tables; no
\* two links share a resolved href and no two images a resolved src; the
\* links (images) kept are the first 50 (20) distinct ones in document order.
C18_CapsAfterDeduplication ==
    content # <<>> =>
        LET c == content[1]
            hrefs == [i \in 1..Len(c.links) |-> c.links[i].href]
            srcs == [i \in 1..Len(c.images) |-> c.images[i].src]
        IN  /\ Len(c.links) <= LinksCap
            /\ Len(c.images) <= ImagesCap
            /\ Len(c.lists) <= ListsCap
            /\ Len(c.tables) <= TablesCap
            /\ NoDuplicates(hrefs)
            /\ NoDuplicates(srcs)
            /\ FirstDistinct(LinkCandidates, LinksCap, hrefs)
            /\ FirstDistinct(ImageCandidates, ImagesCap, srcs)

\* C18 witness: an element with repeated links among its first 50 and more
\* than 50 distinct links, more than 20 distinct images, more than 10 lists
\* and more than 5 tables with content has been parsed.
C18_Witness ==
    /\ content # <<>>
    /\ Cardinality(Range(LinkCandidates)) > LinksCap
    /\ \E i, j \in 1..LinksCap : i # j /\ LinkCandidates[i] = LinkCandidates[j]
    /\ Cardinality(Range(ImageCandidates)) > ImagesCap
    /\ Len(SelectSeq(element.uls, LAMBDA ul : "item" \in Range(ul))) > ListsCap
    /\ Len(SelectSeq(element.tbls, LAMBDA tb : tb # <<<<>>>>)) > TablesCap
    /\ Len(content[1].links) = LinksCap
    /\ Len(content[1].images) = ImagesCap
    /\ Len(content[1].lists) = ListsCap
    /\ Len(content[1].tables) = TablesCap

\* ------------------------------------------------------------------ C19

C20_FrameworkMarkerNeedsRendering ==
    \A i \in 1..Len(calls) :
        calls[i].html.marker = "framework" => calls[i].needs

\* ------------------------------------------------------------------ C21

\* C21 (as claimed): markup whose body holds fewer than 500 characters of
\* visible text, counted with whitespace runs collapsed (120 in the spec's
\* scenario), is classified as needing rendering, whatever the tags and the
\* whitespace of the markup add.
C21_LowContentMeasuredOnVisibleText ==
    \A i \in 1..Len(calls) :
        calls[i].html.textLen < LowTextThreshold => calls[i].needs

\* ------------------------------------------------------------------ C22

\* the spec's scenario: a body of three div elements of class "quote", each
\* with more than 50 characters of text, under a URL without JS pattern
QuoteScenario ==
    /\ tree.body
    /\ Len(tree.elems) = 3
    /\ \A i \in 1..3 :
          /\ tree.elems[i].tag = "div"
          /\ tree.elems[i].class = "quote"
          /\ tree.elems[i].chars > 50
    /\ ~UrlHasJsPattern(url)

\* C22 (as claimed): on the quote scenario the classifier answers
\* needsRendering = false and the extractor returns exactly three sections,
\* each made by the content-block strategy.
C22_QuoteBlocksStaticThreeSections ==
    (xpc = "returned" /\ QuoteScenario) =>
        /\ ~NeedsJsRendering(TreePage(tree), url)
        /\ Len(found_sections) = 3
        /\ \A i \in 1..Len(found_by) : found_by[i] = "block"

\* ------------------------------------------------------------------ C23

\* C23 (as claimed): the scroll loop performs at most max_scrolls scrolls; it
\* never stands before a further round once two rounds in a row have produced
\* no new content; and when the loop has ended, two such rounds or the cap
\* ended it, and the scrolls value the helper reports is the number of
\* scrolls it performed.
C23_ScrollLoopStopsAfterTwoBarrenRounds ==
    /\ scrolls_performed <= max_scrolls
    /\ apc = "scroll" => barren < 2
    /\ apc = "content" =>
          /\ barren = 2 \/ scrolls_performed = max_scrolls
          /\ pw_interactions.scrolls = scrolls_performed

\* ------------------------------------------------------------------ C24

\* C24 (as claimed): an acquisition whose page offers a link to a next page
\* collects that page by link pagination and then performs no scroll: the
\* result the helper prints lists more than one page and reports scrolls = 0.
C24_LinkPaginationExcludesScrolls ==
    (/\ data # <<>>
     /\ data[1].success
     /\ NextHref(data[1].html_pages[1]) # <<>>) =>
        /\ Len(data[1].interactions.pages) > 1
        /\ data[1].interactions.scrolls = 0

\* ------------------------------------------------------------------ C25

\* C25 (as claimed): when the initial navigation succeeded and the helper
\* ran to its end, a failed click, a failed query or a failed evaluation of
\* the scroll phase does not fail the acquisition: the helper prints a result
\* with success (a run whose page.content() or browser.close() failed is left
\* aside).
C25_StepFailuresSkipped ==
    (/\ apc = "ended"
     /\ returncode = "0"
     /\ navigated
     /\ pw_error \notin {<<"content">>, <<"close">>}) =>
        data[1].success

\* ------------------------------------------------------------------ C26

\* C26 (as claimed): no run of the helper ends with an open browser session,
\* whichever way it ended: success, failure of a step, failure before the
\* try, failure of browser.close(), or the subprocess timeout.
C26_SessionClosedOnEveryExit ==
    apc \in {"ended", "returned"} => session # "open"

\* ------------------------------------------------------------------ C27

\* C27: in every document scrape returns, whichever path acquired the pages,
\* interactions.pages is not empty and its first element is the URL given to
\* scrape.
C27_PagesStartWithOrigin ==
    result # <<>> =>
        /\ Len(result[1].interactions.pages) >= 1
        /\ result[1].interactions.pages[1] = url

\* a document of a rendered run that clicked and scrolled up to the cap
C27_Witness ==
    /\ result # <<>>
    /\ result[1].meta.strategy = "js-forced"
    /\ Len(result[1].interactions.clicks) > 0
    /\ result[1].interactions.scrolls = max_scrolls
    /\ result[1].interactions.pages = <<url>>

\* ------------------------------------------------------------------ C28

StaticStrategies == {"static", "static-paginated", "static-fallback"}

\* C28: a document of a static-only path has no clicks and no scrolls, and
\* its pages start at the origin; a document that follows a failed run of
\* the helper has the interactions scrape began with.
C28_StaticPathsKeepInteractionsEmpty ==
    result # <<>> =>
        /\ result[1].meta.strategy \in StaticStrategies =>
              /\ result[1].interactions.clicks = <<>>
              /\ result[1].interactions.scrolls = 0
        /\ js_error # <<>> =>
              result[1].interactions = [clicks |-> <<>>, scrolls |-> 0, pages |-> <<url>>]

\* a static-fallback document after a run of the helper that clicked before
\* it failed
C28_Witness ==
    /\ result # <<>>
    /\ result[1].meta.strategy = "static-fallback"
    /\ data # <<>>
    /\ ~data[1].success
    /\ Len(data[1].interactions.clicks) > 0

\* ------------------------------------------------------------------ C29

\* C29: every run of scrape ends, provided every collaborator call returns
\* or fails: the static paginator, the click phase and the scroll loop each
\* come to an end, and scrape returns a document.
C29_ScrapeTerminates == <>(pc = "done" /\ result # <<>>)

\* scrape returned after a run that clicked up to the click cap and scrolled
\* up to the scroll cap
C29_Witness ==
    /\ pc = "done"
    /\ result # <<>>
    /\ Len(result[1].interactions.clicks) = max_clicks
    /\ result[1].interactions.scrolls = max_scrolls

\* ------------------------------------------------------------------ C30

\* the URLs a snapshot links to
LinkedPaths(h) ==
    {h.links[i].href.to.path : i \in {j \in 1..Len(h.links) : h.links[j].href.kind = "path"}}

\* What the locals r of a call hold is of that call's making: the pages
\* visited and the snapshots collected are of its own URL's site, every
\* entry of errors is one of its own failures, and its document is about its
\* own URL and carries its own interactions.
Own(r) ==
    /\ \A i \in 1..Len(r.interactions.pages) : r.interactions.pages[i].path = r.url.path
    /\ r.interactions.pages[1] = r.url
    /\ \A i \in 1..Len(r.html_pages) : LinkedPaths(r.html_pages[i]) \subseteq {r.url.path}
    /\ \A i \in 1..Len(r.all_html_pages) :
          LinkedPaths(r.all_html_pages[i]) \subseteq {r.url.path}
    /\ Len(r.interactions.pages) <= 1 + r.fetches
    /\ \A i \in 1..Len(r.errors) :
          /\ r.errors[i].phase = "static-fetch" =>
                r.static_error # <<>> /\ r.errors[i] = StaticFetchError(r.static_error[1])
          /\ r.errors[i].phase \in {"js-fallback", "complete-failure"} => r.js_error # <<>>
          /\ r.errors[i].phase = "scrape" => r.pc = "done"
          /\ \A j \in 1..Len(r.errors) : r.errors[j].phase = r.errors[i].phase => j = i
    /\ r.result # <<>> =>
          /\ r.result[1].url = r.url
          /\ r.result[1].interactions = r.interactions
          /\ r.result[1].errors = r.errors
          /\ \A i \in 1..Len(r.result[1].sections) :
                r.result[1].sections[i].sourceUrl = r.url

\* C30: under every interleaving of two calls of scrape on the shared
\* scraper, the errors, interactions, visited pages and snapshots of each
\* call, running or suspended, hold only what that call produced.
C30_RequestsDoNotInterfere ==
    /\ Own(Running)
    /\ \A i \in 1..Len(waiting) : Own(waiting[i])

\* both calls are in the middle of their pagination, each with two further
\* pages fetched: the one suspended, the other running
C30_Witness ==
    /\ waiting # <<>>
    /\ pc = "paginate"
    /\ waiting[1].pc = "paginate"
    /\ Len(interactions.pages) >= 3
    /\ Len(waiting[1].interactions.pages) >= 3
    /\ interactions.pages[1] # waiting[1].interactions.pages[1]

\* ------------------------------------------------------------------ C31

\* 'prev' in href: the hrefs that suggest "previous" are those to "/prev?..."
HrefSuggestsPrev(href) == href.kind = "path" /\ href.to.path = "/prev"

\* C31 (as claimed): whenever the scan of the last fetched page selects a
\* candidate, the candidate's href does not suggest "previous", and no URL
\* the paginator followed does.
C31_NeverFollowsPrevious ==
    /\ \A i \in 1..Len(html_pages) :
           \A href \in Range(NextHref(html_pages[i])) : ~HrefSuggestsPrev(href)
    /\ \A i \in 2..Len(interactions.pages) : interactions.pages[i].path # "/prev"

\* ------------------------------------------------------------------ C32

\* handle_clicks: Strategy A element.click(force=False), Strategy B
\* element.click(force=True), Strategy C element.evaluate('el => el.click()')
ClickStrategies == <<"plain", "forced", "script">>

\* whether the browser lets the strategy through on an element of the kind
Takes(kind, s) ==
    CASE s = "plain"  -> kind = "ok"
      [] s = "forced" -> kind \in {"ok", "covered"}
      [] OTHER        -> kind \in {"ok", "covered", "inert"}

\* handle_clicks: the nested try blocks from strategy k on: the strategies
\* that run on an element of the kind, in the order they run
RECURSIVE TryFrom(_, _)
TryFrom(kind, k) ==
    IF k > Len(ClickStrategies) THEN <<>>
    ELSE IF Takes(kind, ClickStrategies[k]) THEN <<ClickStrategies[k]>>
    ELSE <<ClickStrategies[k]>> \o TryFrom(kind, k + 1)

ClickAttempts(kind) == TryFrom(kind, 1)

\* The order half of C32: the strategies run on an element are a prefix of
\* plain, forced, script; a later one runs only after every earlier one
\* failed; none runs after one succeeded; click_success is set exactly when
\* the last strategy run succeeded.
C32_StrategiesInOrder ==
    apc \in {"clicks", "count"} =>
        \A k \in 1..Len(target) : \A i \in 1..Len(target[k].elems) :
            LET kind == target[k].elems[i]
                run  == ClickAttempts(kind)
            IN  kind \notin {"hidden", "disabled", "gone"} =>
                /\ run = Take(ClickStrategies, Len(run))
                /\ \A j \in 1..Len(run) - 1 : ~Takes(kind, run[j])
                /\ ClickSuccess(kind) <=> Takes(kind, Last(run))

\* C32 (as claimed): the strategies are tried in the order plain, forced,
\* script, each only after the earlier ones failed and none after a success;
\* a click record is appended exactly for the elements on which a strategy
\* succeeded; and every record identifies the strategy that succeeded.
C32_RecordIdentifiesStrategy ==
    /\ C32_StrategiesInOrder
    /\ apc \in {"clicks", "count"} =>
           \A j \in 1..Len(pw_interactions.clicks) :
               "strategy" \in DOMAIN pw_interactions.clicks[j]

\* ------------------------------------------------------------------ C33

\* the records handle_clicks appended for the selector
RecordsOf(selector) ==
    {j \in 1..Len(pw_interactions.clicks) : pw_interactions.clicks[j].selector = selector}

\* C33: at every point of a run of the helper, the recorded clicks are at
\* most max_clicks (8); no selector has more records than its cap (5 for a
\* tab selector, 3 for a load-more selector); and every recorded click is of
\* an element that is_visible and is_enabled answered true for.
C33_ClickCaps ==
    DOMAIN pw_interactions # {} =>
        /\ Len(pw_interactions.clicks) <= max_clicks
        /\ clicked = Len(pw_interactions.clicks)
        /\ \A k \in 1..Len(target) :
               Cardinality(RecordsOf(target[k].selector))
                  <= (IF target[k].phase = "tab" THEN TabCap ELSE LoadMoreCap)
        /\ \A j \in 1..Len(pw_interactions.clicks) :
               \E k \in 1..Len(target) :
                  /\ target[k].selector = pw_interactions.clicks[j].selector
                  /\ target[k].elems[pw_interactions.clicks[j].index + 1]
                         \notin {"hidden", "disabled", "gone"}

\* the click phase is over with all three caps reached at once: 5 records of
\* a tab selector that matched 6 elements, 3 of a load-more selector that
\* matched 4, 8 in all
C33_Witness ==
    /\ apc = "count"
    /\ Len(pw_interactions.clicks) = max_clicks
    /\ Cardinality(RecordsOf("[role=tab]")) = TabCap
    /\ Cardinality(RecordsOf("button:has-text(Load more)")) = LoadMoreCap
    /\ Len(target[1].elems) > TabCap
    /\ Len(target[2].elems) > LoadMoreCap

\* ------------------------------------------------------------------ C34

\* C34 (as claimed): after every round of the scroll loop the stagnation
\* counter is the number of rounds in a row, up to now, in which neither the
\* page height nor the element count increased: a round in which they stayed
\* equal or decreased adds one, a round in which one of them increased sets
\* it to 0.
C34_StagnationCountsRoundsWithoutIncrease ==
    (apc \in {"scroll", "content"} /\ pw_error = <<>>) => no_change_count = barren

\* ------------------------------------------------------------------ link pagination in the browser

\* _handle_pagination: pagination_selectors, in the order they are tried
\* ('a:has-text("next")' and 'a:has-text("Next")' match on the link text)
PaginationSelectors == <<"a:has-text(next)", "a:has-text(Next)", "li.next a", "a.next", "a[rel=next]">>

SelectorMatches(sel, a) ==
    IF sel \in {"a:has-text(next)", "a:has-text(Next)"} THEN a.text \in {"next", "Next"}
    ELSE a.sel = sel

\* _handle_pagination: the test of one element; the hrefs urljoin raises on
\* are skipped by the inner except
Followable(a, base, pages) ==
    /\ a.href.kind # "none"
    /\ ~(a.href.kind = "path" /\ a.href.to.path = "/prev")
    /\ ~UrlJoinRaises(a.href)
    /\ UrlJoin(base, a.href) \notin Range(pages)

\* _handle_pagination: next_href after the scan of the selectors
NextInBrowser(h, base, pages) ==
    LET bySel(k) == SelectSeq(h.links, LAMBDA a : SelectorMatches(PaginationSelectors[k], a))
        all == bySel(1) \o bySel(2) \o bySel(3) \o bySel(4) \o bySel(5)
        ok  == SelectSeq(all, LAMBDA a : Followable(a, base, pages))
    IN  IF ok = <<>> THEN <<>> ELSE <<UrlJoin(base, ok[1].href)>>

\* _handle_hackernews_pagination: the URL of the first a.morelink, unless it
\* has no href or was visited
MoreInBrowser(h, base, pages) ==
    LET more == SelectSeq(h.links, LAMBDA a : a.sel = "a.morelink")
    IN  IF more = <<>> THEN <<>>
        ELSE IF more[1].href.kind = "none" THEN <<>>
        ELSE IF UrlJoinRaises(more[1].href) THEN <<>>
        ELSE IF UrlJoin(base, more[1].href) \in Range(pages) THEN <<>>
        ELSE <<UrlJoin(base, more[1].href)>>

\* the documents a site shows the browser at URL u
BrowsedTemplates == {"article", "listing", "prevnext", "loop", "iconprev", "morelink"}

Browsed(u) == {Page(t, u) : t \in BrowsedTemplates}

\* _handle_pagination is called with the page at the request's URL and the
\* interactions of the request
HandlePaginationInit ==
    /\ RequestInit
    /\ ParsingIdle
    /\ ClassifyingIdle
    /\ ExtractingIdle
    /\ AcquiringIdle
    /\ ServingIdle
    /\ noise_removed = FALSE
    /\ hp_pc = "select"
    /\ hp_hn \in BOOLEAN
    /\ hp_url = <<url>>
    /\ hp_shown \in {<<h>> : h \in Browsed(url)}
    /\ hp_pages = interactions.pages
    /\ hp_html_pages = <<>>
    /\ hp_visited = 1
    /\ hp_next = <<>>

\* "while pages_visited < self.max_pages" and the search for the next link
HandlePaginationSelect ==
    /\ hp_pc = "select"
    /\ LET found == IF hp_hn THEN MoreInBrowser(hp_shown[1], hp_url[1], hp_pages)
                    ELSE NextInBrowser(hp_shown[1], hp_url[1], hp_pages)
       IN  IF hp_visited < max_pages /\ found # <<>>
           THEN hp_pc' = "goto" /\ hp_next' = found
           ELSE hp_pc' = "returned" /\ hp_next' = <<>>
    /\ UNCHANGED <<hp_hn, hp_url, hp_shown, hp_pages, hp_html_pages, hp_visited>>
    /\ UNCHANGED <<request, parsing, classifying, extracting, acquiring, serving, overlay>>

\* await page.goto(next_href, ...) returns
HandlePaginationGoto ==
    /\ hp_pc = "goto"
    /\ hp_pc' = "capture"
    /\ hp_url' = hp_next
    /\ hp_shown' \in {<<h>> : h \in Browsed(hp_next[1])}
    /\ UNCHANGED <<hp_hn, hp_pages, hp_html_pages, hp_visited, hp_next>>
    /\ UNCHANGED <<request, parsing, classifying, extracting, acquiring, serving, overlay>>

\* await page.goto raises: the except clause leaves the loop
HandlePaginationGotoRaises ==
    /\ hp_pc = "goto"
    /\ hp_pc' = "returned"
    /\ UNCHANGED <<hp_hn, hp_url, hp_shown, hp_pages, hp_html_pages, hp_visited, hp_next>>
    /\ UNCHANGED <<request, parsing, classifying, extracting, acquiring, serving, overlay>>

\* interactions["pages"].append(next_href);
\* html_pages.append(await page.content()); pages_visited += 1
HandlePaginationCapture ==
    /\ hp_pc = "capture"
    /\ hp_pages' = Append(hp_pages, hp_next[1])
    /\ hp_html_pages' = Append(hp_html_pages, hp_shown[1])
    /\ hp_visited' = hp_visited + 1
    /\ hp_pc' = "select"
    /\ UNCHANGED <<hp_hn, hp_url, hp_shown, hp_next>>
    /\ UNCHANGED <<request, parsing, classifying, extracting, acquiring, serving, overlay>>

\* interactions["pages"].append(next_href), then await page.content()
\* raises: the except clause leaves the loop
HandlePaginationCaptureRaises ==
    /\ hp_pc = "capture"
    /\ hp_pages' = Append(hp_pages, hp_next[1])
    /\ hp_pc' = "returned"
    /\ UNCHANGED <<hp_hn, hp_url, hp_shown, hp_html_pages, hp_visited, hp_next>>
    /\ UNCHANGED <<request, parsing, classifying, extracting, acquiring, serving, overlay>>

HandlePaginationNext ==
    \/ HandlePaginationSelect
    \/ HandlePaginationGoto
    \/ HandlePaginationGotoRaises
    \/ HandlePaginationCapture
    \/ HandlePaginationCaptureRaises

HandlePaginationSpec == HandlePaginationInit /\ [][HandlePaginationNext]_vars

\* ------------------------------------------------------------------ C35

\* C35 (as claimed): at every point of the link pagination, also after a
\* navigation or a capture failed, the URLs in interactions.pages beyond the
\* origin are as many as the snapshots captured (a URL is in pages only with
\* its snapshot); the URL about to be navigated to is not in pages; and the
\* additional pages are at most max_pages - 1.
C35_PagesMatchSnapshots ==
    hp_pc # "idle" =>
        /\ Len(hp_pages) - 1 = Len(hp_html_pages)
        /\ hp_pc \in {"goto", "capture"} => hp_next[1] \notin Range(hp_pages)
        /\ Len(hp_html_pages) <= max_pages - 1

\* the rest of C35, without the equality of pages and snapshots
C35_NoRevisitWithinCap ==
    hp_pc # "idle" =>
        /\ hp_pc \in {"goto", "capture"} => hp_next[1] \notin Range(hp_pages)
        /\ Len(hp_html_pages) <= max_pages - 1
        /\ Len(hp_html_pages) <= Len(hp_pages) - 1
        /\ \A i, j \in 1..Len(hp_pages) : hp_pages[i] = hp_pages[j] => i = j

\* ------------------------------------------------------------------ C36

\* UniversalScraper._remove_noise(page): removes the cookie, consent and
\* dialog elements of the page; every failure is swallowed.  No statement of
\* scraper.py or playwright_helper.py calls it, so it is a step of no run.
RemoveNoise ==
    /\ session = "open"
    /\ navigated
    /\ noise_removed' = TRUE
    /\ UNCHANGED <<request, parsing, classifying, extracting, acquiring, serving, legacy>>

\* the click phase of the run is over
ClickPhaseOver == sel_index > Len(target) \/ clicked >= max_clicks

\* the scroll loop of the run is over
ScrollPhaseOver == no_change_count >= 2 \/ scrolls_performed = max_scrolls

\* The order half of C36: the scroll loop starts only when the click phase
\* is over, and the snapshot is taken only when the click phase and the
\* scroll loop are over.
C36_ClicksThenScrollsThenSnapshot ==
    /\ apc \in {"count", "scroll", "content", "close"} => ClickPhaseOver
    /\ (apc = "close" \/ pw_html_pages # <<>>) => ClickPhaseOver /\ ScrollPhaseOver

\* C36 (as claimed): the sub-phases of a rendered acquisition run in the
\* order noise removal, reveal clicks, multi-page acquisition: the click
\* phase starts only after noise removal has run, and the snapshot is taken
\* only after all three.
C36_NoiseRemovedBeforeClicks ==
    /\ C36_ClicksThenScrollsThenSnapshot
    /\ apc \in {"clicks", "count", "scroll", "content", "close"} => noise_removed
    /\ pw_html_pages # <<>> => noise_removed

\* ------------------------------------------------------------------ C37

SectionTypes == {"hero", "nav", "footer", "section", "pricing", "faq", "grid", "list", "unknown"}

\* the type C37 gives an element: the type of the first keyword list that
\* matches its class and id, else the type of its tag, else the default of
\* the strategy that found it
TypeAsClaimed(el, default_type) ==
    LET hits == {i \in 1..Len(TypeKeywords) :
                    TypeKeywords[i].words \cap ClassWords(el.class) # {}}
    IN  IF hits # {} THEN TypeKeywords[CHOOSE i \in hits : \A j \in hits : i <= j].type
        ELSE CASE el.tag = "nav" -> "nav"
               [] el.tag = "header" -> "hero"
               [] el.tag = "footer" -> "footer"
               [] OTHER -> default_type

\* the default type of the strategy that parses an element with the tag
DefaultTypes(tag) ==
    {Landmarks[i].type : i \in {j \in 1..Len(Landmarks) : Landmarks[j].tag = tag}}
        \cup {"section"}

\* the part of C37 about the range of the types
C37_TypesInRange ==
    \A k \in 1..Len(found_sections) : found_sections[k].type \in SectionTypes

\* C37 (as claimed): every section found from an element of the page has
\* the type of a keyword match on the element's class and id where there is
\* one, also for a nav, header or footer element; else the type of its
\* tag; else the strategy's default; and every type is one of SectionTypes.
C37_KeywordOverridesTag ==
    /\ C37_TypesInRange
    /\ \A k \in 1..Len(found_sections) :
           found_by[k] \in {"landmark", "block"} =>
              \E i \in 1..Len(tree.elems) :
                 /\ found_sections[k].rawHtml = <<tree.elems[i].tag>>
                 /\ \E d \in DefaultTypes(tree.elems[i].tag) :
                       found_sections[k].type = TypeAsClaimed(tree.elems[i], d)

\* ------------------------------------------------------------------ two requests, the rendered run step by step

\* the click targets of the two requests
LoopTargets == {t \in Targets : Len(t) <= 2 /\ \A k \in 1..Len(t) : Len(t[k].elems) <= 2}

\* The event loop of uvicorn with two calls of scrape: the running call
\* takes the steps of RunNext, the helper process included, on the pages of
\* Served, and the loop switches to the other call where the running one is
\* suspended at an await.
LoopNext ==
    \/ Switch
    \/ TryStaticScrapeOk /\ Served'
    \/ RunStaticScrapeFail /\ Served'
    \/ JsScrapeBegin /\ target' \in LoopTargets
    \/ Launch
    \/ NewContextAndPage
    \/ Goto
    \/ ClickSelector
    \/ ClicksDone
    \/ InitialCount
    \/ ScrollRound
    \/ PageContent /\ (\A i \in 1..Len(pw_html_pages') : pw_html_pages'[i].title \in ServedTemplates)
    \/ CloseBrowser
    \/ ErrorHandler
    \/ ContextExit
    \/ SubprocessTimeout
    \/ JsScrapeEndOk
    \/ JsScrapeEndFallback
    \/ JsScrapeEndComplete
    \/ KeepStaticPage
    \/ StaticPaginateBegin
    \/ PaginateStop
    \/ PaginateUrlJoinRaises
    \/ PaginateFetchOk /\ Served'
    \/ PaginateFetchFail
    \/ ReturnDocument
    \/ ReturnAfterException

LoopSpec == ConcurrentInit /\ [][LoopNext]_vars

\* ------------------------------------------------------------------ C38

\* the running request is inside "await self._js_scrape(url)"
InAcquisition == pc = "js" /\ apc \notin {"idle", "returned"}

\* C38 (as claimed): while the running request is in the rendered
\* acquisition and another request is waiting, the event loop can switch to
\* the other request: the acquisition does not block the loop.
C38_AcquisitionDoesNotBlockLoop ==
    (InAcquisition /\ waiting # <<>> /\ waiting[1].pc # "done") => ENABLED Switch

\* What the code does instead: from the start of the acquisition to its
\* return no step changes the waiting request.
C38_LoopBlockedDuringAcquisition ==
    [][pc = "js" => waiting' = waiting]_vars

\* ------------------------------------------------------------------ C39

\* the part of C39 about uniqueness: no two sections _extract_sections
\* returns for a page have the same id
C39_IdsUnique ==
    \A i, j \in 1..Len(found_sections) :
        found_sections[i].id = found_sections[j].id => i = j

\* C39 (as claimed): in what _extract_sections returns for a page, whichever
\* strategies made the sections (landmarks, content blocks, headings, the
\* body fallback, the placeholder), the <type> of every id "<type>-<ordinal>"
\* is the section's type field, and no two sections have the same id.
C39_IdsNameTheirType ==
    xpc = "returned" =>
        /\ \A k \in 1..Len(found_sections) :
               found_sections[k].id.type = found_sections[k].type
        /\ C39_IdsUnique

\* ------------------------------------------------------------------ the label generator alone

\* the words of section texts: text.split() of a text of n words
MaxWords == 9

WordList == <<"one", "two", "three", "four", "five", "six", "seven", "eight", "nine">>

Words(n) == [i \in 1..n |-> WordList[((i - 1) % Len(WordList)) + 1]]

\* An attribute value: <<>> where attributes.get gives None, else the value.
\* "" is falsy; " Plans " is truthy and strips to "Plans", " " to "".
AttrValues == {<<>>, <<"">>, <<" ">>, <<" Plans ">>}

Strip(v) == CASE v = " Plans " -> "Plans" [] v = " " -> "" [] OTHER -> v

\* the elements _generate_label is called for, with the content extracted
\* from them: the headings, the text as its words, aria-label and title
LabelInputs ==
    {[headings |-> h, words |-> Words(n), aria |-> a, title |-> t] :
        h \in {<<>>, <<"Pricing">>, <<"Pricing", "FAQ">>},
        n \in 0..MaxWords,
        a \in AttrValues,
        t \in AttrValues}

\* HTMLParser._generate_label: the label as the sequence of its parts, the
\* words joined by ' ' and the '...' appended
GenerateLabel(c, el) ==
    IF c.headings # <<>> THEN <<c.headings[1]>>
    ELSE IF el.aria # <<>> /\ el.aria[1] # "" THEN <<Strip(el.aria[1])>>
    ELSE IF el.title # <<>> /\ el.title[1] # "" THEN <<Strip(el.title[1])>>
    ELSE IF c.text # <<>>
    THEN LET words == Take(c.text, 7)
         IN  words \o (IF Len(words) >= 7 THEN <<"...">> ELSE <<>>)
    ELSE <<"Content">>

LabelInit ==
    /\ RequestInit
    /\ element \in LabelInputs
    /\ content = <<>>
    /\ ClassifyingIdle
    /\ ExtractingIdle
    /\ AcquiringIdle
    /\ LegacyIdle
    /\ ServingIdle

\* _parse_section: label = self._generate_label(content, element)
GenerateLabelCall ==
    /\ content = <<>>
    /\ LET c == [headings |-> element.headings, text |-> element.words]
       IN  content' = <<[headings |-> c.headings, text |-> c.text,
                         label |-> GenerateLabel(c, element)]>>
    /\ UNCHANGED <<legacy, overlay, request, element, classifying, extracting, acquiring, serving>>

LabelNext == GenerateLabelCall

LabelSpec == LabelInit /\ [][LabelNext]_vars

\* ------------------------------------------------------------------ C40

\* the part of C40 about the order of the sources and the length
C40_LabelSources ==
    content # <<>> =>
        LET c == content[1]
            truthy(v) == v # <<>> /\ v[1] # ""
        IN  /\ c.headings # <<>> => c.label = <<c.headings[1]>>
            /\ (c.headings = <<>> /\ truthy(element.aria)) =>
                   c.label = <<Strip(element.aria[1])>>
            /\ (c.headings = <<>> /\ ~truthy(element.aria) /\ truthy(element.title)) =>
                   c.label = <<Strip(element.title[1])>>
            /\ (c.headings = <<>> /\ ~truthy(element.aria) /\ ~truthy(element.title)) =>
                   IF c.text = <<>> THEN c.label = <<"Content">>
                   ELSE SelectSeq(c.label, LAMBDA w : w # "...") = Take(c.text, 7)

\* C40 (as claimed): the label is the first heading, else the aria-label or
\* the title, else the first words of the text, else "Content"; a label
\* made from the text has at most 7 words, and ends with the ellipsis
\* exactly when the text has more than 7 words.
C40_EllipsisOnlyBeyondSevenWords ==
    /\ C40_LabelSources
    /\ (content # <<>> /\ element.headings = <<>> /\ element.words # <<>>
          /\ element.aria \in {<<>>, <<"">>} /\ element.title \in {<<>>, <<"">>}) =>
            (Last(content[1].label) = "..." <=> Len(element.words) > 7)

====
